---- MODULE Spec2Model ----
(***************************************************************************)
(* A model of the eth-lsd-relay service manager (service_manager.go), the  *)
(* setMerkleRoot task of a service, and WaitTxOkCommon (pkg/utils/eth2.go).*)
(***************************************************************************)
EXTENDS Integers, Sequences, FiniteSets, TLC

(***************************************************************************)
(* Node rewards: the merge of setMerkleRoot (lines 246-301).               *)
(*                                                                         *)
(* An address string is a one-character hex string, given by the ASCII     *)
(* code of its character: "1" (49), "B" (66), "a" (97), "b" (98).  Go      *)
(* compares strings bytewise, which for these strings is < on the codes.   *)
(* "B" and "b" are two spellings of the same address.                      *)
(***************************************************************************)
AddrStrings == {49, 66, 97, 98}

\* (totalRewardAmount, totalExitDepositAmount) of the sampled nodes
AmountPairs == {<<1, 0>>, <<2, 1>>}

\* bound: entries of a prior rewards file
MaxPre == 2

\* bound: nodes with new rewards in one cycle
MaxNew == 1

\* common.HexToAddress: the value of the hex string, whatever the case of its digits
HexToAddress(s) ==
    IF s \in 48..57 THEN s - 48
    ELSE IF s \in 65..70 THEN s - 55
    ELSE IF s \in 97..102 THEN s - 87
    ELSE 0

\* NodeNewReward, and the fields of a NodeReward that json.Unmarshal fills and the merge reads
NodeNewReward ==
    { [Address |-> s, TotalRewardAmount |-> p[1], TotalExitDepositAmount |-> p[2]] :
        s \in AddrStrings, p \in AmountPairs }

\* the sequences over S of length at most n
SeqUpTo(S, n) == UNION { [1..k -> S] : k \in 0..n }

\* the orders in which a Go map with key set S can be ranged over
Perms(S) == { p \in [1..Cardinality(S) -> S] : \A i, j \in DOMAIN p : p[i] = p[j] => i = j }

\* NodeRewardsList values a downloaded prior file can unmarshal to
PreLists == SeqUpTo(NodeNewReward, MaxPre)

\* NodeNewRewardsMap values: keyed by address, each node's string spelling its key
NewRewardsMaps ==
    UNION { { m \in [K -> NodeNewReward] : \A k \in K : HexToAddress(m[k].Address) = k } :
              K \in { K \in SUBSET { HexToAddress(s) : s \in AddrStrings } : Cardinality(K) <= MaxNew } }

EmptyMap == [k \in {} |-> 0]

\* lines 246-253: preNodeRewardMap, or the duplicate node address error
RECURSIVE PreMapFrom(_, _, _)
PreMapFrom(list, i, m) ==
    IF i > Len(list) THEN [err |-> FALSE, m |-> m]
    ELSE LET address == HexToAddress(list[i].Address) IN
         IF address \in DOMAIN m THEN [err |-> TRUE, m |-> EmptyMap]
         ELSE PreMapFrom(list, i + 1, [k \in DOMAIN m \cup {address} |-> IF k = address THEN list[i] ELSE m[k]])

\* a loop without the exist test: a later entry replaces the earlier one
PreMapUnchecked(list) ==
    [err |-> FALSE,
     m |-> [k \in { HexToAddress(list[i].Address) : i \in 1..Len(list) } |->
              list[CHOOSE i \in 1..Len(list) :
                     /\ HexToAddress(list[i].Address) = k
                     /\ \A j \in (i + 1)..Len(list) : HexToAddress(list[j].Address) # k]]]

\* lines 246-253: the map of the prior list, err when an address occurs twice
preNodeRewardMap(list) == PreMapFrom(list, 1, EmptyMap)

\* a merge that replaces the amounts of a node already in the map
MergeNodeOverwrite(final, node) ==
    LET address == HexToAddress(node.Address) IN
    [k \in DOMAIN final \cup {address} |->
        IF k = address
        THEN [Address |-> node.Address, TotalRewardAmount |-> node.TotalRewardAmount,
              TotalExitDepositAmount |-> node.TotalExitDepositAmount]
        ELSE final[k]]

\* lines 263-273 and 278-288: one iteration of a merge loop
MergeNode(final, node) ==
    LET address == HexToAddress(node.Address) IN
    IF address \in DOMAIN final
    THEN [final EXCEPT ![address] =
            [@ EXCEPT !.TotalRewardAmount = @ + node.TotalRewardAmount,
                      !.TotalExitDepositAmount = @ + node.TotalExitDepositAmount]]
    ELSE [k \in DOMAIN final \cup {address} |->
            IF k = address
            THEN [Address |-> node.Address, TotalRewardAmount |-> node.TotalRewardAmount,
                  TotalExitDepositAmount |-> node.TotalExitDepositAmount]
            ELSE final[k]]

\* lines 261-274 and 276-289: range over the map nodes in the order given, merging into final
RECURSIVE MergeLoop(_, _, _, _)
MergeLoop(final, nodes, order, i) ==
    IF i > Len(order) THEN final
    ELSE MergeLoop(MergeNode(final, nodes[order[i]]), nodes, order, i + 1)

\* lines 260-289
finalNodeRewardsMap(preMap, preOrder, newMap, newOrder) ==
    MergeLoop(MergeLoop(EmptyMap, preMap, preOrder, 1), newMap, newOrder, 1)

\* lines 292-295: the list appended in the order the final map is ranged over
AppendAll(final, order) == [i \in 1..Len(order) |-> final[order[i]]]

\* the less function of lines 296-298
AddressLess(a, b) == a.Address < b.Address

\* sort.SliceStable: a stable insertion of x into a sorted list
RECURSIVE InsertStable(_, _)
InsertStable(sorted, x) ==
    IF sorted = << >> THEN <<x>>
    ELSE IF AddressLess(x, sorted[Len(sorted)])
         THEN Append(InsertStable(SubSeq(sorted, 1, Len(sorted) - 1), x), sorted[Len(sorted)])
         ELSE Append(sorted, x)

RECURSIVE SortFrom(_, _, _)
SortFrom(list, i, acc) ==
    IF i > Len(list) THEN acc ELSE SortFrom(list, i + 1, InsertStable(acc, list[i]))

\* the list left in the order of the map iteration
SortSkipped(list) == list

\* lines 296-298
SortSliceStable(list) == SortFrom(list, 1, << >>)

\* uint32(i) of line 300: the identity on 0 .. 2^32 - 1, which holds every list position
Uint32(i) == i

\* lines 299-301: node.Index = uint32(i)
AssignIndex(list) ==
    [i \in 1..Len(list) |->
        [Address |-> list[i].Address, Index |-> Uint32(i - 1),
         TotalRewardAmount |-> list[i].TotalRewardAmount,
         TotalExitDepositAmount |-> list[i].TotalExitDepositAmount]]

\* lines 292-301
finalNodeRewardsList(final, order) == AssignIndex(SortSliceStable(AppendAll(final, order)))

VARIABLES
    preList,          \* the prior file's list, as unmarshalled
    newRewards,       \* getNodeNewRewardsBetween's result
    mergeState,       \* "input" | "error" | "merged"
    finalList,        \* finalNodeRewardsList once merged
    shutdownPending,  \* ShutdownRequestChannel holds a signal nobody has received yet
    shutdownTaken,    \* the receiver of ShutdownRequestChannel has received a signal
    otherSends,       \* sends on ShutdownRequestChannel completed by other tasks
    wpc,              \* where the WaitTxOkCommon call is
    retry,            \* WaitTxOkCommon's retry
    subRetry,         \* WaitTxOkCommon's subRetry
    receipt,          \* the receipt TransactionReceipt returned, status 2 when none yet
    wBlockNumber,     \* the blockNumber WaitTxOkCommon returns
    wErr,             \* WaitTxOkCommon's err result is not nil
    wFired,           \* this call has sent on ShutdownRequestChannel
    tokens,           \* what GetEntrustedLsdTokens returns
    srvs,             \* ServiceManager.srvs: token -> service (its number in inst)
    inst,             \* the services created so far: token, running or stopped, stopped by whom
    mpc,              \* where the manager's task (Start, then startSyncService) is
    mctx,             \* "start": Start's own sync; "loop": the reconciler task
    attempt,          \* failed attempts of the running retry.Do
    tokenList,        \* tokenList of the running syncEntrustedLsdTokens
    idx,              \* position of the loop of lines 133-140 in tokenList
    rangeLeft,        \* keys the Range of lines 142-149 has still to visit
    stopPc,           \* where ServiceManager.Stop is: "no" | "range" | "conn" | "done"
    stopLeft,         \* keys the Range of lines 93-96 has still to visit
    connStopped,      \* connection.Stop() has been called
    changes,          \* changes of the token list so far
    passPre,          \* srvs when the running syncEntrustedLsdTokens began
    fetchFailed,      \* a call of GetEntrustedLsdTokens has failed
    finalizedEpoch,   \* beaconHead.FinalizedEpoch
    dealed,           \* per service: networkWithdraw.LatestMerkleRootEpoch()
    hasVoted,         \* per service: the proposals the relay's vote is recorded for
    synced,           \* per service: s.latestBlockOfSyncBlock
    spc,              \* per service: where its setMerkleRoot task is
    loc,              \* per service: the locals of the running setMerkleRoot
    inv,              \* per service: what its latest setMerkleRoot call read and did
    txs,              \* the SetMerkleRoot transactions submitted, with their outcome
    txLock,           \* the holder of the connection's tx-opts lock, or "free"
    lockTx,           \* transactions submitted under the current hold of the lock
    fnName,           \* the function of pkg/utils that is called, "none" when none is
    fnArgs,           \* the arguments of the call
    fnOut,            \* << >> until the call returns, then <<result>>
    latestMerkleRootEpoch,              \* Service.latestMerkleRootEpoch
    latestDistributeWithdrawalsHeight,  \* Service.latestDistributeWithdrawalsHeight
    latestDistributePriorityFeeHeight,  \* Service.latestDistributePriorityFeeHeight
    minExecutionBlockHeight,            \* Service.minExecutionBlockHeight
    prunes,           \* calls of pruneBlocks that have returned
    pruneOut          \* what the last pruneBlocks call read and returned, << >> before the first

mergeVars == <<preList, newRewards, mergeState, finalList>>

busVars == <<shutdownPending, shutdownTaken, otherSends>>

waitVars == <<wpc, retry, subRetry, receipt, wBlockNumber, wErr, wFired>>

mgrVars == <<tokens, srvs, inst, mpc, mctx, attempt, tokenList, idx, rangeLeft, stopPc, stopLeft,
             connStopped, changes, passPre, fetchFailed>>

svcVars == <<finalizedEpoch, dealed, hasVoted, synced, spc, loc, inv, txs, txLock, lockTx>>

fnVars == <<fnName, fnArgs, fnOut>>

pruneVars == <<latestMerkleRootEpoch, latestDistributeWithdrawalsHeight, latestDistributePriorityFeeHeight,
               minExecutionBlockHeight, prunes, pruneOut>>

vars == <<mergeVars, busVars, waitVars, mgrVars, svcVars, fnVars, pruneVars>>

\* no service runs pruneBlocks
InitNoPrune ==
    /\ latestMerkleRootEpoch = 0
    /\ latestDistributeWithdrawalsHeight = 0
    /\ latestDistributePriorityFeeHeight = 0
    /\ minExecutionBlockHeight = 0
    /\ prunes = 0
    /\ pruneOut = << >>

\* no function of pkg/utils is called on its own
InitNoFn ==
    /\ fnName = "none"
    /\ fnArgs = << >>
    /\ fnOut = << >>

(***************************************************************************)
(* The shutdown bus: utils.ShutdownRequestChannel, a channel of capacity   *)
(* one whose receiver takes one signal and then shuts the process down.    *)
(* The senders in the source send with a plain channel send.               *)
(***************************************************************************)
InitBus ==
    /\ shutdownPending = FALSE
    /\ shutdownTaken = FALSE
    /\ otherSends = 0

\* a send on ShutdownRequestChannel can complete: the one buffer slot is free
CanSendShutdown == ~shutdownPending

\* the receiver takes the signal; it receives once
ShutdownReceive ==
    /\ shutdownPending
    /\ ~shutdownTaken
    /\ shutdownPending' = FALSE
    /\ shutdownTaken' = TRUE
    /\ UNCHANGED <<fnVars, pruneVars, mergeVars, waitVars, mgrVars, svcVars, otherSends>>

\* bound: sends on ShutdownRequestChannel by the other tasks of the process
MaxOtherSends == 2

\* another task (the reconciler at service_manager.go line 113, the WaitTxOkCommon call
\* of another service) sends on ShutdownRequestChannel
OtherTaskFire ==
    /\ otherSends < MaxOtherSends
    /\ CanSendShutdown
    /\ shutdownPending' = TRUE
    /\ otherSends' = otherSends + 1
    /\ UNCHANGED <<fnVars, pruneVars, mergeVars, shutdownTaken, waitVars, mgrVars, svcVars>>

(***************************************************************************)
(* WaitTxOkCommon (eth2.go, lines 223-294), one call.                      *)
(***************************************************************************)
RetryLimit == 600

\* the block numbers a receipt can carry
ReceiptBlocks == {7}

NoReceipt == [Status |-> 2, BlockNumber |-> 0]

InitNoWait ==
    /\ wpc = "idle"
    /\ retry = 0
    /\ subRetry = 0
    /\ receipt = NoReceipt
    /\ wBlockNumber = 0
    /\ wErr = FALSE
    /\ wFired = FALSE

InitWait ==
    /\ wpc = "byHash"
    /\ retry = 0
    /\ subRetry = 0
    /\ receipt = NoReceipt
    /\ wBlockNumber = 0
    /\ wErr = FALSE
    /\ wFired = FALSE

\* a test that lets one more attempt through
OverLimitByTwo(n) == n > RetryLimit + 1

\* lines 233 and 261: the test that ends a polling loop
OverLimit(n) == n > RetryLimit

\* lines 233-235: the outer loop finds retry over the limit
ByHashLimit ==
    /\ wpc = "byHash"
    /\ OverLimit(retry)
    /\ wBlockNumber' = 0
    /\ wErr' = TRUE
    /\ wpc' = "defer"
    /\ UNCHANGED <<fnVars, pruneVars, mergeVars, busVars, mgrVars, svcVars, retry, subRetry, receipt, wFired>>

\* lines 236-255: TransactionByHash fails, or says the transaction is pending
ByHashRetry ==
    /\ wpc = "byHash"
    /\ ~OverLimit(retry)
    /\ retry' = retry + 1
    /\ UNCHANGED <<fnVars, pruneVars, mergeVars, busVars, mgrVars, svcVars, wpc, subRetry, receipt, wBlockNumber, wErr, wFired>>

\* lines 256-259: TransactionByHash finds the transaction mined
ByHashFound ==
    /\ wpc = "byHash"
    /\ ~OverLimit(retry)
    /\ subRetry' = 0
    /\ wpc' = "receipt"
    /\ UNCHANGED <<fnVars, pruneVars, mergeVars, busVars, mgrVars, svcVars, retry, receipt, wBlockNumber, wErr, wFired>>

\* lines 261-263: the inner loop finds subRetry over the limit
ReceiptLimit ==
    /\ wpc = "receipt"
    /\ OverLimit(subRetry)
    /\ wBlockNumber' = 0
    /\ wErr' = TRUE
    /\ wpc' = "defer"
    /\ UNCHANGED <<fnVars, pruneVars, mergeVars, busVars, mgrVars, svcVars, retry, subRetry, receipt, wFired>>

\* lines 265-275: TransactionReceipt fails
ReceiptRetry ==
    /\ wpc = "receipt"
    /\ ~OverLimit(subRetry)
    /\ subRetry' = subRetry + 1
    /\ UNCHANGED <<fnVars, pruneVars, mergeVars, busVars, mgrVars, svcVars, wpc, retry, receipt, wBlockNumber, wErr, wFired>>

\* lines 265, 276-293: TransactionReceipt returns a receipt; success or failure by its status
ReceiptGot ==
    /\ wpc = "receipt"
    /\ ~OverLimit(subRetry)
    /\ \E st \in {0, 1}, bn \in ReceiptBlocks :
         /\ receipt' = [Status |-> st, BlockNumber |-> bn]
         /\ IF st = 1
            THEN wBlockNumber' = bn /\ wErr' = FALSE
            ELSE wBlockNumber' = 0 /\ wErr' = TRUE
    /\ wpc' = "defer"
    /\ UNCHANGED <<fnVars, pruneVars, mergeVars, busVars, mgrVars, svcVars, retry, subRetry, wFired>>

\* a deferred function that sends whatever the result
DeferSendsAlways == TRUE

\* the deferred function's condition, line 225
DeferSends == wErr

\* lines 224-229 with an error: the send on ShutdownRequestChannel, then the return
DeferFire ==
    /\ wpc = "defer"
    /\ DeferSends
    /\ CanSendShutdown
    /\ shutdownPending' = TRUE
    /\ wFired' = TRUE
    /\ wpc' = "returned"
    /\ UNCHANGED <<fnVars, pruneVars, mergeVars, shutdownTaken, otherSends, mgrVars, svcVars, retry, subRetry, receipt, wBlockNumber, wErr>>

\* lines 224-229 without an error: the return
DeferReturn ==
    /\ wpc = "defer"
    /\ ~DeferSends
    /\ wpc' = "returned"
    /\ UNCHANGED <<fnVars, pruneVars, mergeVars, busVars, mgrVars, svcVars, retry, subRetry, receipt, wBlockNumber, wErr, wFired>>

WaitStep ==
    \/ ByHashLimit
    \/ ByHashRetry
    \/ ByHashFound
    \/ ReceiptLimit
    \/ ReceiptRetry
    \/ ReceiptGot
    \/ DeferFire
    \/ DeferReturn

(***************************************************************************)
(* The setMerkleRoot task of the services (service_manager.go, lines       *)
(* 203-433), the services sharing the connection and the shutdown bus.     *)
(***************************************************************************)
Services == {"s1", "s2"}

\* bound: setMerkleRoot calls the services make in all
MaxInvocations == 3

\* bound: the finalized epochs the beacon chain can report
MaxEpoch == 4

\* bound: s.merkleRootDuEpochs, the epochs between two merkle roots (set at construction)
merkleRootDuEpochs == 2

\* getEpochStartBlocknumberWithCheck: the execution block at the first slot of an epoch
StartBlock(epoch) == 32 * epoch

NodeB == [Address |-> 66, TotalRewardAmount |-> 1, TotalExitDepositAmount |-> 0]

NodeBLower == [Address |-> 98, TotalRewardAmount |-> 2, TotalExitDepositAmount |-> 1]

NodeA == [Address |-> 97, TotalRewardAmount |-> 1, TotalExitDepositAmount |-> 0]

\* the prior rewards files a service can download
PreMenu == {<< >>, <<NodeB>>, <<NodeB, NodeBLower>>}

\* the results of getNodeNewRewardsBetween
NewMenu == {EmptyMap, [k \in {10, 11} |-> IF k = 10 THEN NodeA ELSE NodeB]}

\* utils.GetNodeHash(index, address, totalRewardAmount, totalExitDepositAmount)
GetNodeHash(node) ==
    <<node.Index, HexToAddress(node.Address), node.TotalRewardAmount, node.TotalExitDepositAmount>>

\* buildMerkleTree, lines 368-375: the leaves of the tree
buildMerkleTree(list) == [i \in 1..Len(list) |-> GetNodeHash(list[i])]

\* tree.GetRootHash: the hash over the leaves
GetRootHash(tree) == <<"root", tree>>

\* line 303: utils.NodeHash{}, the root hash before a tree is built
ZeroRoot == << >>

\* lines 347-348: the root hash copied into a zeroed [32]byte; a hash of a built tree
\* fills the array, the empty NodeHash leaves the 32 zero bytes
merkleTreeRootHash(rootHash) == IF Len(rootHash) = 0 THEN [i \in 1..32 |-> 0] ELSE rootHash

\* the length of tree.GetProof for leaf i of n: one sibling per level at which the node
\* has one; at a level with an odd count the last node is promoted without a sibling
RECURSIVE ProofLen(_, _)
ProofLen(n, i) ==
    IF n <= 1 THEN 0
    ELSE (IF i = n /\ n % 2 = 1 THEN 0 ELSE 1) + ProofLen((n + 1) \div 2, (i + 1) \div 2)

\* pkg/errors.Wrap(err, message): nil when err is nil
ErrorsWrap(err) == IF err = "nil" THEN "nil" ELSE "err"

\* lines 319-325: the result returned when a proof is empty, err being nil after line 320
EmptyProofResult == ErrorsWrap("nil")

\* lines 304-334: some leaf of the list gets an empty proof
SomeProofEmpty(list) == \E i \in 1..Len(list) : ProofLen(Len(list), i) = 0

\* a guard that builds a tree of any list
BuildsTreeAlways(list) == TRUE

\* line 304: a tree is built of a list that is not empty
BuildsTree(list) == Len(list) > 0

\* lines 303-313: the root hash of the final list
RootOf(list) == IF BuildsTree(list) THEN GetRootHash(buildMerkleTree(list)) ELSE ZeroRoot

\* utils.UploadFileToWeb3Storage: the content identifier of the marshalled list
Cid(list) == <<"cid", list>>

\* utils.VoteMerkleRootProposalId(targetEpoch, merkleTreeRootHash, cid)
VoteMerkleRootProposalId(epoch, root, cid) == <<epoch, root, cid>>

\* a target that is the finalized epoch itself, not aligned
TargetEpochUnaligned(finalized) == finalized

\* line 386: the finalized epoch aligned down to a multiple of merkleRootDuEpochs
TargetEpoch(finalized) == (finalized \div merkleRootDuEpochs) * merkleRootDuEpochs

\* a comparison that lets a target equal to the dealed epoch through
NotYetTimeStrict(targetEpoch, dealedEpochOnchain) == targetEpoch < dealedEpochOnchain

\* line 392: the target epoch is not past the epoch dealed on chain
NotYetTime(targetEpoch, dealedEpochOnchain) == targetEpoch <= dealedEpochOnchain

\* line 408: the start block of the target epoch is not synced yet
WaitsForSync(targetEth1BlockHeight, latestBlockOfSyncBlock) == targetEth1BlockHeight > latestBlockOfSyncBlock

\* a gate that sends although the vote is recorded
VotedIgnored(voted) == FALSE

\* line 356: setMerkleRoot returns when HasVoted says the vote is recorded
ReturnsWhenVoted(voted) == voted

\* an unlock that runs right after the send
LockReleasedAfterSend(s) == "free"

\* lines 421-432: the deferred unlock has not run when waitTxOk is called
LockAfterSend(s) == s

NoLoc == [dealed |-> 0, target |-> 0, list |-> << >>, root |-> << >>, cid |-> << >>]

NoInv == [n |-> 0, result |-> "none", exit |-> "none", dealedRead |-> 0, finalizedRead |-> 0, eventSeen |-> "unread",
          preSeen |-> << >>, newSeen |-> EmptyMap, merged |-> "unbuilt", trees |-> 0, voted |-> "unasked", downloads |-> 0, uploads |-> 0, queries |-> 0, sends |-> 0,
          prop |-> << >>]

InitNoServices ==
    /\ finalizedEpoch = 0
    /\ dealed = [s \in Services |-> 0]
    /\ hasVoted = [s \in Services |-> {}]
    /\ synced = [s \in Services |-> 0]
    /\ spc = [s \in Services |-> "off"]
    /\ loc = [s \in Services |-> NoLoc]
    /\ inv = [s \in Services |-> NoInv]
    /\ txs = << >>
    /\ txLock = "free"
    /\ lockTx = 0

\* the frame of a step of a service's task that touches neither chain, lock nor bus
SvcFrame == UNCHANGED <<fnVars, pruneVars, mergeVars, busVars, waitVars, mgrVars, finalizedEpoch, dealed, hasVoted, synced,
                        txs, txLock, lockTx>>

\* setMerkleRoot returns result r at exit e
Returns(s, r, e) ==
    /\ spc' = [spc EXCEPT ![s] = "idle"]
    /\ loc' = [loc EXCEPT ![s] = NoLoc]
    /\ inv' = [inv EXCEPT ![s] = [@ EXCEPT !.result = r, !.exit = e]]

\* the number of setMerkleRoot calls made so far by the services of set S
RECURSIVE InvocationsBy(_)
InvocationsBy(S) ==
    IF S = {} THEN 0
    ELSE LET s == CHOOSE x \in S : TRUE IN inv[s].n + InvocationsBy(S \ {s})

\* the task's ticker fires and the call budget allows a new call
CanInvoke(s) == spc[s] = "idle" /\ InvocationsBy(Services) < MaxInvocations

\* a new call of setMerkleRoot: the record of what the call reads and does
NewInv(s) == [NoInv EXCEPT !.n = inv[s].n + 1]

\* lines 204-207 with 381-399: Eth2BeaconHead, LatestMerkleRootEpoch or the start block fails
SmrCheckFail(s) ==
    /\ CanInvoke(s)
    /\ spc' = spc
    /\ loc' = loc
    /\ inv' = [inv EXCEPT ![s] = [NewInv(s) EXCEPT !.result = "err", !.exit = "check"]]
    /\ SvcFrame

\* lines 208-211 with 392-395 and 408-411: not yet time, or waiting for the block sync
SmrNotYet(s) ==
    /\ CanInvoke(s)
    /\ \/ NotYetTime(TargetEpoch(finalizedEpoch), dealed[s])
       \/ WaitsForSync(StartBlock(TargetEpoch(finalizedEpoch)), synced[s])
    /\ spc' = spc
    /\ loc' = loc
    /\ inv' = [inv EXCEPT ![s] = [NewInv(s) EXCEPT !.result = "nil",
                  !.exit = IF NotYetTime(TargetEpoch(finalizedEpoch), dealed[s]) THEN "notyet" ELSE "sync"]]
    /\ SvcFrame

\* lines 204-211 with 413: shouldGoNext
SmrGoNext(s) ==
    /\ CanInvoke(s)
    /\ ~NotYetTime(TargetEpoch(finalizedEpoch), dealed[s])
    /\ ~WaitsForSync(StartBlock(TargetEpoch(finalizedEpoch)), synced[s])
    /\ spc' = [spc EXCEPT ![s] = "load"]
    /\ loc' = [loc EXCEPT ![s] = [NoLoc EXCEPT !.dealed = dealed[s], !.target = TargetEpoch(finalizedEpoch)]]
    /\ inv' = [inv EXCEPT ![s] = [NewInv(s) EXCEPT !.dealedRead = dealed[s], !.finalizedRead = finalizedEpoch]]
    /\ SvcFrame

\* lines 216-223: no SetMerkleRoot event for the dealed epoch
SmrNoEvent(s) ==
    /\ spc[s] = "load"
    /\ loc[s].dealed > 0
    /\ spc' = [spc EXCEPT ![s] = "idle"]
    /\ loc' = [loc EXCEPT ![s] = NoLoc]
    /\ inv' = [inv EXCEPT ![s] = [@ EXCEPT !.eventSeen = "no", !.result = "err", !.exit = "noevent"]]
    /\ SvcFrame

\* lines 217-240 and 255-258: the filter, the download, the unmarshalling, the start block
\* or getNodeNewRewardsBetween fails
SmrLoadFail(s) ==
    /\ spc[s] = "load"
    /\ Returns(s, "err", "load")
    /\ SvcFrame

\* what the load of lines 213-244 leaves in preNodeRewardList: the downloaded file when
\* dealedEpochOnchain > 0, the empty list in the init case
PreListsRead(s) == IF loc[s].dealed > 0 THEN PreMenu ELSE {<< >>}

\* the record of a load that found the event and downloaded the list pre
Loaded(s, pre) ==
    IF loc[s].dealed > 0
    THEN [inv[s] EXCEPT !.eventSeen = "yes", !.preSeen = pre, !.downloads = @ + 1]
    ELSE inv[s]

\* lines 213-253: the prior list holds an address twice
SmrDuplicate(s) ==
    /\ spc[s] = "load"
    /\ \E pre \in PreListsRead(s) :
         /\ preNodeRewardMap(pre).err
         /\ inv' = [inv EXCEPT ![s] = [Loaded(s, pre) EXCEPT !.result = "err", !.exit = "dup"]]
    /\ spc' = [spc EXCEPT ![s] = "idle"]
    /\ loc' = [loc EXCEPT ![s] = NoLoc]
    /\ SvcFrame

\* the final list of lines 213-301 from the prior list and the new rewards, the maps
\* ranged over in the orders given
FinalListOf(pre, new, preOrder, newOrder, order) ==
    finalNodeRewardsList(finalNodeRewardsMap(preNodeRewardMap(pre).m, preOrder, new, newOrder), order)

\* the final lists the runs of lines 213-301 can produce from pre and new
FinalLists(pre, new) ==
    { FinalListOf(pre, new, po, no, o) :
        po \in Perms(DOMAIN preNodeRewardMap(pre).m), no \in Perms(DOMAIN new),
        o \in Perms(DOMAIN preNodeRewardMap(pre).m \cup DOMAIN new) }

\* lines 213-325: the list is built and a leaf of its tree has an empty proof
SmrEmptyProof(s) ==
    /\ spc[s] = "load"
    /\ \E pre \in PreListsRead(s), new \in NewMenu :
         /\ ~preNodeRewardMap(pre).err
         /\ \E list \in FinalLists(pre, new) :
              /\ BuildsTree(list)
              /\ SomeProofEmpty(list)
         /\ inv' = [inv EXCEPT ![s] = [Loaded(s, pre) EXCEPT !.newSeen = new, !.merged = "nonempty", !.trees = 1,
                                                               !.result = EmptyProofResult, !.exit = "emptyProof"]]
    /\ spc' = [spc EXCEPT ![s] = "idle"]
    /\ loc' = [loc EXCEPT ![s] = NoLoc]
    /\ SvcFrame

\* lines 213-334: the list, its root and its proofs are built
SmrBuilt(s) ==
    /\ spc[s] = "load"
    /\ \E pre \in PreListsRead(s), new \in NewMenu :
         /\ ~preNodeRewardMap(pre).err
         /\ \E list \in FinalLists(pre, new) :
              /\ ~(BuildsTree(list) /\ SomeProofEmpty(list))
              /\ loc' = [loc EXCEPT ![s] = [@ EXCEPT !.list = list, !.root = RootOf(list)]]
              /\ inv' = [inv EXCEPT ![s] = [Loaded(s, pre) EXCEPT
                            !.newSeen = new,
                            !.merged = IF Len(list) = 0 THEN "empty" ELSE "nonempty",
                            !.trees = IF BuildsTree(list) THEN 1 ELSE 0]]
    /\ spc' = [spc EXCEPT ![s] = "upload"]
    /\ SvcFrame

\* lines 337-345: json.Marshal or the upload fails
SmrUploadFail(s) ==
    /\ spc[s] = "upload"
    /\ Returns(s, "err", "upload")
    /\ SvcFrame

\* lines 337-348: the file is uploaded
SmrUpload(s) ==
    /\ spc[s] = "upload"
    /\ spc' = [spc EXCEPT ![s] = "voted"]
    /\ loc' = [loc EXCEPT ![s] = [@ EXCEPT !.cid = Cid(loc[s].list)]]
    /\ inv' = [inv EXCEPT ![s] = [@ EXCEPT !.uploads = @ + 1,
                  !.prop = VoteMerkleRootProposalId(loc[s].target, merkleTreeRootHash(loc[s].root),
                                                    Cid(loc[s].list))]]
    /\ SvcFrame

\* lines 351-355: HasVoted fails
SmrHasVotedFail(s) ==
    /\ spc[s] = "voted"
    /\ spc' = [spc EXCEPT ![s] = "idle"]
    /\ loc' = [loc EXCEPT ![s] = NoLoc]
    /\ inv' = [inv EXCEPT ![s] = [@ EXCEPT !.queries = @ + 1, !.result = "err", !.exit = "hasVoted"]]
    /\ SvcFrame

\* lines 351-359: the vote is recorded, setMerkleRoot returns nil
SmrVoted(s) ==
    /\ spc[s] = "voted"
    /\ ReturnsWhenVoted(inv[s].prop \in hasVoted[s])
    /\ spc' = [spc EXCEPT ![s] = "idle"]
    /\ loc' = [loc EXCEPT ![s] = NoLoc]
    /\ inv' = [inv EXCEPT ![s] = [@ EXCEPT !.queries = @ + 1, !.voted = "yes", !.result = "nil", !.exit = "voted"]]
    /\ SvcFrame

\* lines 351-361: no vote recorded, sendSetMerkleRootTx is called
SmrNotVoted(s) ==
    /\ spc[s] = "voted"
    /\ ~ReturnsWhenVoted(inv[s].prop \in hasVoted[s])
    /\ spc' = [spc EXCEPT ![s] = "lock"]
    /\ inv' = [inv EXCEPT ![s] = [@ EXCEPT !.queries = @ + 1,
                                            !.voted = IF inv[s].prop \in hasVoted[s] THEN "yes" ELSE "no"]]
    /\ UNCHANGED loc
    /\ SvcFrame

\* connection.LockAndUpdateTxOpts can take the lock
LockFree == txLock = "free"

\* lines 417-420: LockAndUpdateTxOpts fails, the lock is not held on its return
TxLockFail(s) ==
    /\ spc[s] = "lock"
    /\ LockFree
    /\ Returns(s, "err", "lock")
    /\ SvcFrame

\* lines 417-421: LockAndUpdateTxOpts returns with the lock held
TxLock(s) ==
    /\ spc[s] = "lock"
    /\ LockFree
    /\ txLock' = s
    /\ lockTx' = 0
    /\ spc' = [spc EXCEPT ![s] = "send"]
    /\ UNCHANGED <<fnVars, pruneVars, mergeVars, busVars, waitVars, mgrVars, finalizedEpoch, dealed, hasVoted, synced, loc, inv, txs>>

\* lines 425-428: SetMerkleRoot fails, no transaction is submitted
TxSendFail(s) ==
    /\ spc[s] = "send"
    /\ spc' = [spc EXCEPT ![s] = "unlock"]
    /\ inv' = [inv EXCEPT ![s] = [@ EXCEPT !.result = "err", !.exit = "send"]]
    /\ UNCHANGED loc
    /\ SvcFrame

\* lines 425-432: the transaction is submitted, waitTxOk is called
TxSend(s) ==
    /\ spc[s] = "send"
    /\ txs' = Append(txs, [svc |-> s, prop |-> inv[s].prop, outcome |-> "pending"])
    /\ lockTx' = lockTx + 1
    /\ txLock' = LockAfterSend(s)
    /\ spc' = [spc EXCEPT ![s] = "wait"]
    /\ inv' = [inv EXCEPT ![s] = [@ EXCEPT !.sends = @ + 1]]
    /\ UNCHANGED <<fnVars, pruneVars, mergeVars, busVars, waitVars, mgrVars, finalizedEpoch, dealed, hasVoted, synced, loc>>

\* the service's transaction that is not confirmed yet
PendingTx(s) == CHOOSE i \in 1..Len(txs) : txs[i].svc = s /\ txs[i].outcome = "pending"

\* line 432, WaitTxOkCommon returning a block number: the receipt has status 1, the vote
\* is recorded, and the proposal is executed when this vote completes the quorum
TxWaitOk(s) ==
    /\ spc[s] = "wait"
    /\ txs' = [txs EXCEPT ![PendingTx(s)] = [@ EXCEPT !.outcome = "ok"]]
    /\ hasVoted' = [hasVoted EXCEPT ![s] = @ \cup {inv[s].prop}]
    /\ \E executed \in BOOLEAN :
         dealed' = IF executed THEN [dealed EXCEPT ![s] = loc[s].target] ELSE dealed
    /\ spc' = [spc EXCEPT ![s] = "unlock"]
    /\ inv' = [inv EXCEPT ![s] = [@ EXCEPT !.result = "nil", !.exit = "sent"]]
    /\ UNCHANGED <<fnVars, pruneVars, mergeVars, busVars, waitVars, mgrVars, finalizedEpoch, synced, loc, txLock, lockTx>>

\* line 432, WaitTxOkCommon ending in an error: the receipt has another status, or a
\* retry limit is passed; no vote is recorded
TxWaitFail(s) ==
    /\ spc[s] = "wait"
    /\ \E o \in {"failed", "limit"} :
         txs' = [txs EXCEPT ![PendingTx(s)] = [@ EXCEPT !.outcome = o]]
    /\ spc' = [spc EXCEPT ![s] = "fire"]
    /\ inv' = [inv EXCEPT ![s] = [@ EXCEPT !.result = "err", !.exit = "wait"]]
    /\ UNCHANGED <<fnVars, pruneVars, mergeVars, busVars, waitVars, mgrVars, finalizedEpoch, dealed, hasVoted, synced, loc,
                   txLock, lockTx>>

\* eth2.go, lines 224-229: WaitTxOkCommon's deferred send on ShutdownRequestChannel
TxFire(s) ==
    /\ spc[s] = "fire"
    /\ CanSendShutdown
    /\ shutdownPending' = TRUE
    /\ spc' = [spc EXCEPT ![s] = "unlock"]
    /\ UNCHANGED <<fnVars, pruneVars, mergeVars, shutdownTaken, otherSends, waitVars, mgrVars, finalizedEpoch, dealed,
                   hasVoted, synced, loc, inv, txs, txLock, lockTx>>

\* line 421: the deferred UnlockTxOpts, then sendSetMerkleRootTx and setMerkleRoot return
TxUnlock(s) ==
    /\ spc[s] = "unlock"
    /\ txLock' = "free"
    /\ spc' = [spc EXCEPT ![s] = "idle"]
    /\ loc' = [loc EXCEPT ![s] = NoLoc]
    /\ UNCHANGED <<fnVars, pruneVars, mergeVars, busVars, waitVars, mgrVars, finalizedEpoch, dealed, hasVoted, synced, inv,
                   txs, lockTx>>

\* a step of the setMerkleRoot task of service s
SetMerkleRootStep(s) ==
    \/ SmrCheckFail(s)
    \/ SmrNotYet(s)
    \/ SmrGoNext(s)
    \/ SmrNoEvent(s)
    \/ SmrLoadFail(s)
    \/ SmrDuplicate(s)
    \/ SmrEmptyProof(s)
    \/ SmrBuilt(s)
    \/ SmrUploadFail(s)
    \/ SmrUpload(s)
    \/ SmrHasVotedFail(s)
    \/ SmrVoted(s)
    \/ SmrNotVoted(s)
    \/ TxLockFail(s)
    \/ TxLock(s)
    \/ TxSendFail(s)
    \/ TxSend(s)
    \/ TxWaitOk(s)
    \/ TxWaitFail(s)
    \/ TxFire(s)
    \/ TxUnlock(s)

InitNoMerge ==
    /\ preList = << >>
    /\ newRewards = EmptyMap
    /\ mergeState = "input"
    /\ finalList = << >>

(***************************************************************************)
(* The service manager (service_manager.go, lines 72-166).                  *)
(***************************************************************************)
Tokens == {"T1", "T2"}

\* bound: the attempts of retry.Do (retry.Attempts(utils.RetryLimit) in the source)
SyncAttempts == 2

\* bound: how often the factory's token list changes
MaxChanges == 2

InitNoManager ==
    /\ tokens = {}
    /\ srvs = EmptyMap
    /\ inst = << >>
    /\ mpc = "off"
    /\ mctx = "start"
    /\ attempt = 0
    /\ tokenList = << >>
    /\ idx = 1
    /\ rangeLeft = {}
    /\ stopPc = "no"
    /\ stopLeft = {}
    /\ connStopped = FALSE
    /\ changes = 0
    /\ passPre = EmptyMap
    /\ fetchFailed = FALSE

\* lo.Contains(tokenList, token)
Contains(list, token) == \E i \in 1..Len(list) : list[i] = token

\* a Range that removes every service
RemoveAll(list, token) == TRUE

\* a Range that removes no service
RemoveNone(list, token) == FALSE

\* line 143: the Range removes the service of a token that is not in tokenList
ShouldRemove(list, token) == ~Contains(list, token)

\* a Stop that leaves the service running
StopSkipped(i, who) == inst

\* Service.Stop on service i, called by who
StopInst(i, who) ==
    [inst EXCEPT ![i] = [@ EXCEPT !.state = "stopped",
                                  !.by = IF inst[i].state = "running" THEN who ELSE @]]

\* retry.Do after a failed attempt: the next attempt, or the error when none is left
\* (Start returns it, line 82-84; startSyncService goes on to the send, lines 111-113)
PassFails ==
    /\ attempt' = attempt + 1
    /\ mpc' = IF attempt + 1 >= SyncAttempts
              THEN (IF mctx = "start" THEN "startFailed" ELSE "fire")
              ELSE "fetch"

\* Start, lines 73-78, newAndStartServiceFor succeeding: the one configured token
StartStatic ==
    /\ mpc = "init"
    /\ \E t \in Tokens :
         /\ inst' = Append(inst, [token |-> t, state |-> "running", by |-> "none"])
         /\ srvs' = [k \in {t} |-> Len(inst) + 1]
    /\ mpc' = "static"
    /\ UNCHANGED <<fnVars, pruneVars, mergeVars, busVars, waitVars, svcVars, tokens, mctx, attempt, tokenList, idx, rangeLeft,
                   stopPc, stopLeft, connStopped, changes, passPre, fetchFailed>>

\* Start, lines 73-76, newAndStartServiceFor failing
StartStaticFail ==
    /\ mpc = "init"
    /\ mpc' = "staticFailed"
    /\ UNCHANGED <<fnVars, pruneVars, mergeVars, busVars, waitVars, svcVars, tokens, srvs, inst, mctx, attempt, tokenList, idx,
                   rangeLeft, stopPc, stopLeft, connStopped, changes, passPre, fetchFailed>>

\* Start, line 81: retry.Do(m.syncEntrustedLsdTokens) begins
StartEntrusted ==
    /\ mpc = "init"
    /\ mctx' = "start"
    /\ attempt' = 0
    /\ mpc' = "fetch"
    /\ UNCHANGED <<fnVars, pruneVars, mergeVars, busVars, waitVars, svcVars, tokens, srvs, inst, tokenList, idx, rangeLeft,
                   stopPc, stopLeft, connStopped, changes, passPre, fetchFailed>>

\* syncEntrustedLsdTokens, lines 123-130: the factory binding or the call fails
SyncFetchFail ==
    /\ mpc = "fetch"
    /\ fetchFailed' = TRUE
    /\ PassFails
    /\ UNCHANGED <<fnVars, pruneVars, mergeVars, busVars, waitVars, svcVars, tokens, srvs, inst, mctx, tokenList, idx, rangeLeft,
                   stopPc, stopLeft, connStopped, changes, passPre>>

\* syncEntrustedLsdTokens, lines 123-131: the token list, in the order the contract gives
SyncFetch ==
    /\ mpc = "fetch"
    /\ \E l \in Perms(tokens) : tokenList' = l
    /\ idx' = 1
    /\ passPre' = srvs
    /\ mpc' = "add"
    /\ UNCHANGED <<fnVars, pruneVars, mergeVars, busVars, waitVars, svcVars, tokens, srvs, inst, mctx, attempt, rangeLeft,
                   stopPc, stopLeft, connStopped, changes, fetchFailed>>

\* lines 133-134: the token has a service already
SyncAddSkip ==
    /\ mpc = "add"
    /\ idx <= Len(tokenList)
    /\ tokenList[idx] \in DOMAIN srvs
    /\ idx' = idx + 1
    /\ UNCHANGED <<fnVars, pruneVars, mergeVars, busVars, waitVars, svcVars, tokens, srvs, inst, mpc, mctx, attempt, tokenList,
                   rangeLeft, stopPc, stopLeft, connStopped, changes, passPre, fetchFailed>>

\* lines 134-136 and 154-166: a new token, its service created, started and stored
SyncAddStart ==
    /\ mpc = "add"
    /\ idx <= Len(tokenList)
    /\ tokenList[idx] \notin DOMAIN srvs
    /\ inst' = Append(inst, [token |-> tokenList[idx], state |-> "running", by |-> "none"])
    /\ srvs' = [k \in DOMAIN srvs \cup {tokenList[idx]} |->
                  IF k = tokenList[idx] THEN Len(inst) + 1 ELSE srvs[k]]
    /\ idx' = idx + 1
    /\ UNCHANGED <<fnVars, pruneVars, mergeVars, busVars, waitVars, svcVars, tokens, mpc, mctx, attempt, tokenList, rangeLeft,
                   stopPc, stopLeft, connStopped, changes, passPre, fetchFailed>>

\* lines 136-138 with 157-163: NewService or srv.Start fails, nothing is stored
SyncAddFail ==
    /\ mpc = "add"
    /\ idx <= Len(tokenList)
    /\ tokenList[idx] \notin DOMAIN srvs
    /\ PassFails
    /\ UNCHANGED <<fnVars, pruneVars, mergeVars, busVars, waitVars, svcVars, tokens, srvs, inst, mctx, tokenList, idx, rangeLeft,
                   stopPc, stopLeft, connStopped, changes, passPre, fetchFailed>>

\* line 142: the loop over tokenList is over, the Range begins
SyncAddDone ==
    /\ mpc = "add"
    /\ idx > Len(tokenList)
    /\ rangeLeft' = DOMAIN srvs
    /\ mpc' = "remove"
    /\ UNCHANGED <<fnVars, pruneVars, mergeVars, busVars, waitVars, svcVars, tokens, srvs, inst, mctx, attempt, tokenList, idx,
                   stopPc, stopLeft, connStopped, changes, passPre, fetchFailed>>

\* lines 143-147: the Range stops and deletes the service of a removed token
SyncRemoveStop ==
    /\ mpc = "remove"
    /\ \E k \in rangeLeft :
         /\ ShouldRemove(tokenList, k)
         /\ inst' = StopInst(srvs[k], "sync")
         /\ srvs' = [t \in DOMAIN srvs \ {k} |-> srvs[t]]
         /\ rangeLeft' = rangeLeft \ {k}
    /\ UNCHANGED <<fnVars, pruneVars, mergeVars, busVars, waitVars, svcVars, tokens, mpc, mctx, attempt, tokenList, idx,
                   stopPc, stopLeft, connStopped, changes, passPre, fetchFailed>>

\* lines 143, 148: the Range passes over the service of a listed token
SyncRemoveKeep ==
    /\ mpc = "remove"
    /\ \E k \in rangeLeft :
         /\ ~ShouldRemove(tokenList, k)
         /\ rangeLeft' = rangeLeft \ {k}
    /\ UNCHANGED <<fnVars, pruneVars, mergeVars, busVars, waitVars, svcVars, tokens, srvs, inst, mpc, mctx, attempt, tokenList,
                   idx, stopPc, stopLeft, connStopped, changes, passPre, fetchFailed>>

\* line 151: syncEntrustedLsdTokens returns nil; retry.Do returns nil
SyncDone ==
    /\ mpc = "remove"
    /\ rangeLeft = {}
    /\ mpc' = IF mctx = "start" THEN "spawn" ELSE "sleep"
    /\ UNCHANGED <<fnVars, pruneVars, mergeVars, busVars, waitVars, svcVars, tokens, srvs, inst, mctx, attempt, tokenList, idx,
                   rangeLeft, stopPc, stopLeft, connStopped, changes, passPre, fetchFailed>>

\* Start, lines 86-88: the reconciler task is spawned, Start returns nil
StartSpawn ==
    /\ mpc = "spawn"
    /\ mctx' = "loop"
    /\ mpc' = "loop"
    /\ UNCHANGED <<fnVars, pruneVars, mergeVars, busVars, waitVars, svcVars, tokens, srvs, inst, attempt, tokenList, idx,
                   rangeLeft, stopPc, stopLeft, connStopped, changes, passPre, fetchFailed>>

\* startSyncService, lines 104-107: m.stop is closed, the task returns
LoopStopped ==
    /\ mpc = "loop"
    /\ stopPc # "no"
    /\ mpc' = "stopped"
    /\ UNCHANGED <<fnVars, pruneVars, mergeVars, busVars, waitVars, svcVars, tokens, srvs, inst, mctx, attempt, tokenList, idx,
                   rangeLeft, stopPc, stopLeft, connStopped, changes, passPre, fetchFailed>>

\* startSyncService, lines 108-110: the default case, retry.Do begins
LoopSync ==
    /\ mpc = "loop"
    /\ stopPc = "no"
    /\ attempt' = 0
    /\ mpc' = "fetch"
    /\ UNCHANGED <<fnVars, pruneVars, mergeVars, busVars, waitVars, svcVars, tokens, srvs, inst, mctx, tokenList, idx,
                   rangeLeft, stopPc, stopLeft, connStopped, changes, passPre, fetchFailed>>

\* startSyncService, line 117: the sleep of 12 seconds is over
LoopSleep ==
    /\ mpc = "sleep"
    /\ mpc' = "loop"
    /\ UNCHANGED <<fnVars, pruneVars, mergeVars, busVars, waitVars, svcVars, tokens, srvs, inst, mctx, attempt, tokenList, idx,
                   rangeLeft, stopPc, stopLeft, connStopped, changes, passPre, fetchFailed>>

\* startSyncService, lines 113-114: the send on ShutdownRequestChannel, then the return
SyncTaskFire ==
    /\ mpc = "fire"
    /\ CanSendShutdown
    /\ shutdownPending' = TRUE
    /\ mpc' = "exited"
    /\ UNCHANGED <<fnVars, pruneVars, mergeVars, shutdownTaken, otherSends, waitVars, svcVars, tokens, srvs, inst, mctx, attempt,
                   tokenList, idx, rangeLeft, stopPc, stopLeft, connStopped, changes, passPre,
                   fetchFailed>>

\* the steps of the manager's task: Start, then the reconciler
ManagerTask ==
    \/ StartStatic
    \/ StartStaticFail
    \/ StartEntrusted
    \/ SyncFetchFail
    \/ SyncFetch
    \/ SyncAddSkip
    \/ SyncAddStart
    \/ SyncAddFail
    \/ SyncAddDone
    \/ SyncRemoveStop
    \/ SyncRemoveKeep
    \/ SyncDone
    \/ StartSpawn
    \/ LoopStopped
    \/ LoopSync
    \/ LoopSleep
    \/ SyncTaskFire

\* Stop, lines 92-93: close(m.stop), the Range begins; Stop is called once Start has returned nil
StopClose ==
    /\ stopPc = "no"
    /\ mpc = "static" \/ mctx = "loop"
    /\ stopPc' = "range"
    /\ stopLeft' = DOMAIN srvs
    /\ UNCHANGED <<fnVars, pruneVars, mergeVars, busVars, waitVars, svcVars, tokens, srvs, inst, mpc, mctx, attempt, tokenList,
                   idx, rangeLeft, connStopped, changes, passPre, fetchFailed>>

\* Stop, lines 93-96: the Range stops a service
StopService ==
    /\ stopPc = "range"
    /\ \E k \in stopLeft :
         /\ inst' = IF k \in DOMAIN srvs THEN StopInst(srvs[k], "Stop") ELSE inst
         /\ stopLeft' = stopLeft \ {k}
    /\ UNCHANGED <<fnVars, pruneVars, mergeVars, busVars, waitVars, svcVars, tokens, srvs, mpc, mctx, attempt, tokenList, idx,
                   rangeLeft, stopPc, connStopped, changes, passPre, fetchFailed>>

\* Stop, line 97: m.connection.Stop()
StopConnection ==
    /\ stopPc = "range"
    /\ stopLeft = {}
    /\ connStopped' = TRUE
    /\ stopPc' = "done"
    /\ UNCHANGED <<fnVars, pruneVars, mergeVars, busVars, waitVars, svcVars, tokens, srvs, inst, mpc, mctx, attempt, tokenList,
                   idx, rangeLeft, stopLeft, changes, passPre, fetchFailed>>

\* the factory contract's list of entrusted tokens changes
ChangeTokens ==
    /\ mpc # "off"
    /\ changes < MaxChanges
    /\ \E S \in SUBSET Tokens : S # tokens /\ tokens' = S
    /\ changes' = changes + 1
    /\ UNCHANGED <<fnVars, pruneVars, mergeVars, busVars, waitVars, svcVars, srvs, inst, mpc, mctx, attempt, tokenList, idx,
                   rangeLeft, stopPc, stopLeft, connStopped, passPre, fetchFailed>>

InitMgr ==
    /\ InitNoMerge
    /\ InitNoFn
    /\ InitNoPrune
    /\ InitBus
    /\ InitNoWait
    /\ InitNoServices
    /\ tokens \in SUBSET Tokens
    /\ srvs = EmptyMap
    /\ inst = << >>
    /\ mpc = "init"
    /\ mctx = "start"
    /\ attempt = 0
    /\ tokenList = << >>
    /\ idx = 1
    /\ rangeLeft = {}
    /\ stopPc = "no"
    /\ stopLeft = {}
    /\ connStopped = FALSE
    /\ changes = 0
    /\ passPre = EmptyMap
    /\ fetchFailed = FALSE

NextMgr ==
    \/ ManagerTask
    \/ StopClose
    \/ StopService
    \/ StopConnection
    \/ ChangeTokens
    \/ OtherTaskFire
    \/ ShutdownReceive

SpecMgr == InitMgr /\ [][NextMgr]_vars

\* the Go scheduler runs the manager's task whenever it can take a step
FairSpecMgr == SpecMgr /\ WF_vars(ManagerTask)

InitSvc ==
    /\ InitNoMerge
    /\ InitNoFn
    /\ InitNoPrune
    /\ InitBus
    /\ InitNoWait
    /\ InitNoManager
    /\ finalizedEpoch \in 0..MaxEpoch
    /\ dealed \in [Services -> {0, merkleRootDuEpochs}]
    /\ hasVoted = [s \in Services |-> {}]
    /\ synced \in [Services -> {StartBlock(merkleRootDuEpochs), StartBlock(MaxEpoch)}]
    /\ spc = [s \in Services |-> "idle"]
    /\ loc = [s \in Services |-> NoLoc]
    /\ inv = [s \in Services |-> NoInv]
    /\ txs = << >>
    /\ txLock = "free"
    /\ lockTx = 0

NextSvc ==
    \/ \E s \in Services : SetMerkleRootStep(s)
    \/ ShutdownReceive

SpecSvc == InitSvc /\ [][NextSvc]_vars

InitMerge ==
    /\ InitNoFn
    /\ InitNoPrune
    /\ preList \in PreLists
    /\ newRewards \in NewRewardsMaps
    /\ mergeState = "input"
    /\ finalList = << >>
    /\ InitBus
    /\ InitNoWait
    /\ InitNoManager
    /\ InitNoServices

\* lines 246-253 failing on a duplicate
MergeDuplicate ==
    /\ mergeState = "input"
    /\ preNodeRewardMap(preList).err
    /\ mergeState' = "error"
    /\ UNCHANGED <<preList, newRewards, finalList, busVars, waitVars, mgrVars, svcVars, fnVars, pruneVars>>

\* lines 246-301 on a prior list without duplicates
MergeLists ==
    /\ mergeState = "input"
    /\ ~preNodeRewardMap(preList).err
    /\ LET preMap == preNodeRewardMap(preList).m IN
       \E preOrder \in Perms(DOMAIN preMap), newOrder \in Perms(DOMAIN newRewards) :
         LET final == finalNodeRewardsMap(preMap, preOrder, newRewards, newOrder) IN
         \E order \in Perms(DOMAIN final) :
            finalList' = finalNodeRewardsList(final, order)
    /\ mergeState' = "merged"
    /\ UNCHANGED <<preList, newRewards, busVars, waitVars, mgrVars, svcVars, fnVars, pruneVars>>

NextMerge == MergeDuplicate \/ MergeLists

SpecMerge == InitMerge /\ [][NextMerge]_vars

InitWaitSpec ==
    /\ InitNoMerge
    /\ InitNoFn
    /\ InitNoPrune
    /\ InitBus
    /\ InitWait
    /\ InitNoManager
    /\ InitNoServices

NextWait == WaitStep \/ OtherTaskFire \/ ShutdownReceive

SpecWait == InitWaitSpec /\ [][NextWait]_vars

(***************************************************************************)
(* Functions of pkg/utils called on their own: the arguments are drawn by  *)
(* Init, the call's return stores the result in fnOut.                     *)
(***************************************************************************)
\* nothing but the called function runs
InitOnlyFn ==
    /\ InitNoPrune
    /\ InitNoMerge
    /\ InitBus
    /\ InitNoWait
    /\ InitNoManager
    /\ InitNoServices

\* the function fn is called and returns result
Returned(fn, result) ==
    /\ fnName = fn
    /\ fnOut = << >>
    /\ fnOut' = <<result>>
    /\ UNCHANGED <<mergeVars, busVars, waitVars, mgrVars, svcVars, pruneVars, fnName, fnArgs>>

(***************************************************************************)
(* The proposal ids (eth2.go, lines 200-221).                              *)
(***************************************************************************)
Abs(n) == IF n < 0 THEN 0 - n ELSE n

RECURSIVE NatBytes(_)
NatBytes(n) == IF n = 0 THEN << >> ELSE Append(NatBytes(n \div 256), n % 256)

\* big.Int.Bytes(): the big-endian bytes of the absolute value, none for 0
Bytes(n) == NatBytes(Abs(n))

Zeros(l) == [i \in 1..l |-> 0]

\* a padding that leaves the slice as it is
NoPadBytes(slice, l) == slice

\* common.LeftPadBytes(slice, l): zeros on the left up to length l, the slice itself when it is longer
LeftPadBytes(slice, l) == IF l <= Len(slice) THEN slice ELSE Zeros(l - Len(slice)) \o slice

\* []byte("submitBalances")
PrefixSubmitBalances == <<115, 117, 98, 109, 105, 116, 66, 97, 108, 97, 110, 99, 101, 115>>

\* []byte("voteWithdrawCredentials")
PrefixVoteWithdrawCredentials ==
    <<118, 111, 116, 101, 87, 105, 116, 104, 100, 114, 97, 119, 67, 114, 101, 100, 101, 110, 116, 105, 97, 108, 115>>

\* []byte("setMerkleRoot")
PrefixSetMerkleRoot == <<115, 101, 116, 77, 101, 114, 107, 108, 101, 82, 111, 111, 116>>

\* []byte("distribute")
PrefixDistribute == <<100, 105, 115, 116, 114, 105, 98, 117, 116, 101>>

\* the *big.Int arguments of the calls
IdInts == {-1, 0, 1, 256}

\* the *big.Int arguments of the calls of DistributeProposalId
DistributeInts == {0, 1, 256}

\* the []byte and string arguments of the calls
IdByteStrings == {<< >>, <<1>>, <<2>>, <<1, 2>>}

\* utils.DistributeTypeNone, DistributeTypeWithdrawals, DistributeTypePriorityFee
DistributeTypes == {0, 1, 2}

ProposalKinds == {"SubmitBalancesProposalId", "VoteWithdrawCredentialsProposalId",
                  "VoteMerkleRootProposalId", "DistributeProposalId"}

\* the argument tuples of the calls of a proposal kind
ProposalArgs(kind) ==
    CASE kind = "SubmitBalancesProposalId" ->
           [block : IdInts, totalEth : IdInts, rethSupply : IdInts]
      [] kind = "VoteWithdrawCredentialsProposalId" ->
           [pubkey : IdByteStrings]
      [] kind = "VoteMerkleRootProposalId" ->
           [dealedEpoch : IdInts, merkleRoot : IdByteStrings, cid : IdByteStrings]
      [] kind = "DistributeProposalId" ->
           [distributeType : DistributeTypes, dealedHeight : DistributeInts, userAmount : {0, 1},
            nodeAmount : DistributeInts, platformAmount : {0, 256},
            maxClaimableWithdrawIndex : DistributeInts]

\* the byte slices handed to crypto.Keccak256Hash, which hashes their concatenation
Preimage(kind, a) ==
    CASE kind = "SubmitBalancesProposalId" ->
           PrefixSubmitBalances \o LeftPadBytes(Bytes(a.block), 32) \o LeftPadBytes(Bytes(a.totalEth), 32)
             \o LeftPadBytes(Bytes(a.rethSupply), 32)
      [] kind = "VoteWithdrawCredentialsProposalId" ->
           PrefixVoteWithdrawCredentials \o a.pubkey
      [] kind = "VoteMerkleRootProposalId" ->
           PrefixSetMerkleRoot \o LeftPadBytes(Bytes(a.dealedEpoch), 32) \o a.merkleRoot \o a.cid
      [] kind = "DistributeProposalId" ->
           PrefixDistribute \o LeftPadBytes(Bytes(a.distributeType), 32)
             \o LeftPadBytes(Bytes(a.dealedHeight), 32) \o LeftPadBytes(Bytes(a.userAmount), 32)
             \o LeftPadBytes(Bytes(a.nodeAmount), 32) \o LeftPadBytes(Bytes(a.platformAmount), 32)
             \o LeftPadBytes(Bytes(a.maxClaimableWithdrawIndex), 32)

\* crypto.Keccak256Hash: a function of the hashed bytes, taken to be free of collisions
Keccak256Hash(data) == <<"keccak256", data>>

\* lines 200-221: the id of a proposal
ProposalId(kind, a) == Keccak256Hash(Preimage(kind, a))

\* line 200-203
SubmitBalancesProposalId ==
    Returned("SubmitBalancesProposalId", ProposalId("SubmitBalancesProposalId", fnArgs))

\* lines 205-207
VoteWithdrawCredentialsProposalId ==
    Returned("VoteWithdrawCredentialsProposalId", ProposalId("VoteWithdrawCredentialsProposalId", fnArgs))

\* lines 210-212
CallVoteMerkleRootProposalId ==
    Returned("VoteMerkleRootProposalId", ProposalId("VoteMerkleRootProposalId", fnArgs))

\* lines 214-221
DistributeProposalId ==
    Returned("DistributeProposalId", ProposalId("DistributeProposalId", fnArgs))

InitIds ==
    /\ InitOnlyFn
    /\ fnName \in ProposalKinds
    /\ fnArgs \in ProposalArgs(fnName)
    /\ fnOut = << >>

NextIds ==
    \/ SubmitBalancesProposalId
    \/ VoteWithdrawCredentialsProposalId
    \/ CallVoteMerkleRootProposalId
    \/ DistributeProposalId

SpecIds == InitIds /\ [][NextIds]_vars

(***************************************************************************)
(* The epoch arithmetic (eth2.go, lines 96-118). The values drawn are far  *)
(* below 2^64, no operation on uint64 wraps.                               *)
(***************************************************************************)
\* bound: the epochs the functions are called with
MaxEpochArg == 5

\* beacon.Eth2Config with SecondsPerEpoch = SecondsPerSlot * SlotsPerEpoch
Eth2Configs ==
    { [GenesisEpoch |-> ge, GenesisTime |-> gt, SecondsPerSlot |-> sps, SlotsPerEpoch |-> spe,
       SecondsPerEpoch |-> sps * spe] :
        ge \in {0, 1, 2}, gt \in {0, 1606824023}, sps \in {1, 12}, spe \in {1, 32} }

\* line 96-98
EpochAtTimestamp(config, time) ==
    config.GenesisEpoch + (time - config.GenesisTime) \div config.SecondsPerEpoch

\* lines 100-102
SlotAtTimestamp(config, time) == (time - config.GenesisTime) \div config.SecondsPerSlot

\* lines 104-106
StartTimestampOfEpoch(config, epoch) ==
    (epoch - config.GenesisEpoch) * config.SecondsPerEpoch + config.GenesisTime

\* lines 108-110
TimestampOfSlot(config, slot) == slot * config.SecondsPerSlot + config.GenesisTime

\* lines 113-115
StartSlotOfEpoch(config, epoch) == config.SlotsPerEpoch * epoch

\* lines 116-118
EndSlotOfEpoch(config, epoch) == config.SlotsPerEpoch * (epoch + 1) - 1

\* the epoch at the timestamp of the first slot of the epoch
EpochOfStartSlot ==
    Returned("EpochOfStartSlot",
             EpochAtTimestamp(fnArgs.config, TimestampOfSlot(fnArgs.config, StartSlotOfEpoch(fnArgs.config, fnArgs.epoch))))

\* the epoch at the timestamp of the last slot of the epoch
EpochOfEndSlot ==
    Returned("EpochOfEndSlot",
             EpochAtTimestamp(fnArgs.config, TimestampOfSlot(fnArgs.config, EndSlotOfEpoch(fnArgs.config, fnArgs.epoch))))

\* the slot at the start timestamp of the epoch
SlotOfEpochStart ==
    Returned("SlotOfEpochStart", SlotAtTimestamp(fnArgs.config, StartTimestampOfEpoch(fnArgs.config, fnArgs.epoch)))

InitEpoch ==
    /\ InitOnlyFn
    /\ fnName \in {"EpochOfStartSlot", "EpochOfEndSlot", "SlotOfEpochStart"}
    /\ fnArgs \in [config : Eth2Configs, epoch : 0..MaxEpochArg]
    /\ fnName = "SlotOfEpochStart" => fnArgs.epoch >= fnArgs.config.GenesisEpoch
    /\ fnOut = << >>

NextEpoch ==
    \/ EpochOfStartSlot
    \/ EpochOfEndSlot
    \/ SlotOfEpochStart

SpecEpoch == InitEpoch /\ [][NextEpoch]_vars

(***************************************************************************)
(* GetUserNodePlatformReward (eth2.go, lines 296-319). A decimal.Decimal   *)
(* is the whole number of its units of 10^-DivisionPrecision; the amounts  *)
(* passed are whole numbers of wei.                                        *)
(***************************************************************************)
\* bound: the decimal places decimal.Div keeps (decimal.DivisionPrecision, 16 by default)
DivisionPrecision == 2

\* bound: the decimals of the amounts (18 in StandardEffectiveBalanceDeci)
AmountDecimals == 0

\* bound: the rewards the function is called with
MaxReward == 6

RECURSIVE Pow10(_)
Pow10(n) == IF n = 0 THEN 1 ELSE 10 * Pow10(n - 1)

\* the units of 1
DecimalOne == Pow10(DivisionPrecision)

\* decimal.NewFromInt(n)
NewFromInt(n) == n * DecimalOne

\* line 74: decimal.NewFromFloat(0.05)
Percent5Deci == 5 * Pow10(DivisionPrecision - 2)

\* line 75: decimal.NewFromFloat(0.9)
Percent90Deci == 9 * Pow10(DivisionPrecision - 1)

\* line 71: decimal.NewFromFloat(0.1)
PlatformFeeV1Deci == Pow10(DivisionPrecision - 1)

\* line 78: decimal.NewFromBigInt(big.NewInt(32), 18)
StandardEffectiveBalanceDeci == NewFromInt(32 * Pow10(AmountDecimals))

\* Decimal.Mul: the exact product (one factor is a whole number in every call made here)
Mul(a, b) ==
    IF a % DecimalOne = 0 THEN (a \div DecimalOne) * b
    ELSE IF b % DecimalOne = 0 THEN a * (b \div DecimalOne)
    ELSE (a * b) \div DecimalOne

\* the quotient n / m of numbers that are not negative, rounded half up
RoundDiv(n, m) == (2 * n + m) \div (2 * m)

\* Decimal.Div: the quotient rounded to DivisionPrecision places (the divisor is a whole
\* number in the call made here)
Div(a, b) ==
    IF b % DecimalOne = 0 THEN RoundDiv(a, b \div DecimalOne) ELSE RoundDiv(a * DecimalOne, b)

\* a guard that looks at the reward only
RewardNotPositive(nodeDepositAmount, rewardDeci) == ~(rewardDeci > 0)

\* line 303: the case in which zeros are returned
ReturnsZeros(nodeDepositAmount, rewardDeci) ==
    ~(rewardDeci > 0) \/ nodeDepositAmount > StandardEffectiveBalanceDeci

\* the fee of the first version, 10%
PlatformFeeV1(rewardDeci) == Mul(rewardDeci, PlatformFeeV1Deci)

\* line 310
PlatformFee(rewardDeci) == Mul(rewardDeci, Percent5Deci)

\* lines 302-319: <<user reward, node reward, platform fee>>
GetUserNodePlatformReward(nodeDepositAmount, rewardDeci) ==
    IF ReturnsZeros(nodeDepositAmount, rewardDeci) THEN <<0, 0, 0>>
    ELSE LET platformFeeDeci == PlatformFee(rewardDeci)
             nodeRewardDeci == platformFeeDeci
                 + Div(Mul(Mul(rewardDeci, Percent90Deci), nodeDepositAmount), StandardEffectiveBalanceDeci)
             userRewardDeci == rewardDeci - platformFeeDeci - nodeRewardDeci
         IN <<IF userRewardDeci < 0 THEN 0 ELSE userRewardDeci, nodeRewardDeci, platformFeeDeci>>

\* the call of GetUserNodePlatformReward returns
CallGetUserNodePlatformReward ==
    Returned("GetUserNodePlatformReward",
             GetUserNodePlatformReward(NewFromInt(fnArgs.nodeDepositAmount), NewFromInt(fnArgs.rewardDeci)))

InitReward ==
    /\ InitOnlyFn
    /\ fnName = "GetUserNodePlatformReward"
    /\ fnArgs \in [nodeDepositAmount : 0..(32 * Pow10(AmountDecimals) + 1), rewardDeci : (0 - 1)..MaxReward]
    /\ fnOut = << >>

NextReward == CallGetUserNodePlatformReward

SpecReward == InitReward /\ [][NextReward]_vars

(***************************************************************************)
(* ReadLastLine (utils.go, lines 205-254). A file is the sequence of its   *)
(* bytes.                                                                  *)
(***************************************************************************)
\* bound: the size of the files read
MaxFileSize == 4

\* the bytes of the files: 'a', 'b', '\n', '\r'
FileBytes == {97, 98, 10, 13}

\* the files of at most MaxFileSize bytes
Files == UNION { [1..n -> FileBytes] : n \in 0..MaxFileSize }

\* lines 229-251: the loop, entered with the cursor and the line of the iteration before
RECURSIVE ReadBackwards(_, _, _)
ReadBackwards(file, cursor, line) ==
    LET next == cursor - 1
        char == file[Len(file) + next + 1]
    IN IF next # 0 - 1 /\ (char = 10 \/ char = 13) THEN line
       ELSE IF next = 0 - Len(file) THEN <<char>> \o line
       ELSE ReadBackwards(file, next, <<char>> \o line)

\* lines 219-253: the line returned for a file that could be opened
ReadLastLine(file) == IF Len(file) = 0 THEN << >> ELSE ReadBackwards(file, 0, << >>)

\* lines 205-254, the file is read: the line and a nil error
CallReadLastLine ==
    Returned("ReadLastLine", [line |-> ReadLastLine(fnArgs), err |-> FALSE])

\* lines 209-224: MkdirAll, OpenFile or Stat fails: "" and the error
ReadLastLineFails ==
    Returned("ReadLastLine", [line |-> << >>, err |-> TRUE])

InitReadLastLine ==
    /\ InitOnlyFn
    /\ fnName = "ReadLastLine"
    /\ fnArgs \in Files
    /\ fnOut = << >>

NextReadLastLine ==
    \/ CallReadLastLine
    \/ ReadLastLineFails

SpecReadLastLine == InitReadLastLine /\ [][NextReadLastLine]_vars

(***************************************************************************)
(* pruneBlocks (service_manager.go, lines 443-479) and utils.Min.          *)
(***************************************************************************)

\* bound: the block heights are the multiples of 32 up to 32 * MaxHeightUnits
MaxHeightUnits == 3

\* bound: calls of pruneBlocks in one behaviour
MaxPrunes == 2

\* the execution block heights a service has recorded or reads from the chain
Heights == { 32 * k : k \in 0..MaxHeightUnits }

\* lines 320-324 of utils.go: the loop of Min from position i on
RECURSIVE MinLoop(_, _, _)
MinLoop(min, nums, i) ==
    IF i > Len(nums) THEN min
    ELSE MinLoop(IF min > nums[i] THEN nums[i] ELSE min, nums, i + 1)

\* a Min that returns its first argument
MinFirst(n1, nums) == n1

\* utils.Min
Min(n1, nums) == MinLoop(n1, nums, 1)

\* lines 444-451: the start block of latestMerkleRootEpoch, 0 for epoch 0
latestMerkleRootEpochStartBlock ==
    IF latestMerkleRootEpoch # 0 THEN StartBlock(latestMerkleRootEpoch) ELSE 0

\* the places where a query of pruneBlocks can fail: lines 446, 453, 458, 463
PruneQueries == {"epochStartBlock", "cycle", "targetBlock", "snapshot"}

\* lines 446-449, 453-456, 458-461 and 463-466: a query fails and pruneBlocks returns the error
PruneBlocksFail ==
    /\ prunes < MaxPrunes
    /\ \E at \in PruneQueries :
         /\ at = "epochStartBlock" => latestMerkleRootEpoch # 0
         /\ pruneOut' = <<[err |-> TRUE, failed |-> at, snapshot |-> 0]>>
    /\ prunes' = prunes + 1
    /\ UNCHANGED <<latestMerkleRootEpoch, latestDistributeWithdrawalsHeight, latestDistributePriorityFeeHeight,
                   minExecutionBlockHeight>>
    /\ UNCHANGED <<mergeVars, busVars, waitVars, mgrVars, svcVars, fnVars>>

\* lines 443-479 when every query succeeds
pruneBlocks ==
    /\ prunes < MaxPrunes
    /\ \E latestDistributeWithdrawalHeightOnCycleSnapshot \in Heights :
         LET minHeight == Min(latestDistributePriorityFeeHeight,
                              <<latestDistributeWithdrawalsHeight, latestMerkleRootEpochStartBlock,
                                latestDistributeWithdrawalHeightOnCycleSnapshot>>)
         IN  /\ minExecutionBlockHeight' = IF minHeight = 0 THEN minExecutionBlockHeight ELSE minHeight
             /\ pruneOut' = <<[err |-> FALSE, failed |-> "none",
                               snapshot |-> latestDistributeWithdrawalHeightOnCycleSnapshot]>>
    /\ prunes' = prunes + 1
    /\ UNCHANGED <<latestMerkleRootEpoch, latestDistributeWithdrawalsHeight, latestDistributePriorityFeeHeight>>
    /\ UNCHANGED <<mergeVars, busVars, waitVars, mgrVars, svcVars, fnVars>>

InitPrune ==
    /\ InitNoMerge
    /\ InitBus
    /\ InitNoWait
    /\ InitNoManager
    /\ InitNoServices
    /\ fnName = "none" /\ fnArgs = << >> /\ fnOut = << >>
    /\ latestMerkleRootEpoch \in 0..MaxEpoch
    /\ latestDistributeWithdrawalsHeight \in Heights
    /\ latestDistributePriorityFeeHeight \in Heights
    /\ minExecutionBlockHeight \in Heights
    /\ prunes = 0
    /\ pruneOut = << >>

NextPrune == pruneBlocks \/ PruneBlocksFail

SpecPrune == InitPrune /\ [][NextPrune]_vars

(***************************************************************************)
(* The claims.                                                             *)
(***************************************************************************)

C7_WaitTxOkAlwaysReturns == wpc = "returned" \/ ENABLED NextWait

\* C10: the published list has unique node addresses, is sorted ascending by address
\* string, and each entry's index is its position.
C10_PublishedListInvariant ==
    mergeState = "merged" =>
        /\ \A i, j \in 1..Len(finalList) :
              HexToAddress(finalList[i].Address) = HexToAddress(finalList[j].Address) => i = j
        /\ \A i, j \in 1..Len(finalList) : i < j => finalList[i].Address < finalList[j].Address
        /\ \A i \in 1..Len(finalList) : finalList[i].Index = i - 1

\* a published list of three nodes, from a prior file of two and one node with new rewards
C10_Witness ==
    mergeState = "merged" /\ Len(finalList) = 3 /\ Len(preList) = 2 /\ DOMAIN newRewards # {}

\* the services map holds exactly the listed tokens, each with a running service
Converged ==
    /\ DOMAIN srvs = tokens
    /\ \A t \in DOMAIN srvs : inst[srvs[t]].state = "running"

\* the reconciler has given up or is not there: Start failed, the retry budget of a
\* reconcile ran out, the manager runs for one configured token, or Stop was called
ReconcilerGone ==
    \/ mpc \in {"static", "staticFailed", "startFailed", "fire", "exited", "stopped"}
    \/ stopPc # "no"

\* C2 as stated: when no call of GetEntrustedLsdTokens fails, Stop is not called and the
\* manager runs for the entrusted network, the services map converges to the token list.
C2_ReconcileConverges ==
    [](~fetchFailed /\ stopPc = "no" /\ mpc \notin {"static", "staticFailed"}) => <>[]Converged

\* C2, amended: the services map converges to the token list unless the reconciler has
\* given up (creating or starting a service, or the fetch, failed on every attempt of
\* the retry budget) or the manager has been stopped.
C2_ConvergesUnlessGivenUp == <>[](Converged \/ ReconcilerGone)

\* the reconciler sleeping after a pass that started a service and removed another
C2_Witness ==
    /\ mpc = "sleep"
    /\ Converged
    /\ \E t \in tokens : t \notin DOMAIN passPre
    /\ \E t \in DOMAIN passPre : t \notin tokens

\* C3: after a successful reconcile pass, the service of every token that had a service
\* and is still listed is the same instance, not stopped by the pass (running when Stop
\* was not called); the service of every token no longer listed is stopped and deleted.
C3_RemoveLeavesOthersUntouched ==
    mpc \in {"sleep", "spawn"} =>
        \A t \in DOMAIN passPre :
            IF Contains(tokenList, t)
            THEN /\ t \in DOMAIN srvs
                 /\ srvs[t] = passPre[t]
                 /\ inst[passPre[t]].by # "sync"
                 /\ stopPc = "no" => inst[passPre[t]].state = "running"
            ELSE /\ t \notin DOMAIN srvs
                 /\ inst[passPre[t]].state = "stopped"

\* a pass that found services for T1 and T2 and the list {T1}, and left T1 alone
C3_Witness ==
    /\ mpc = "sleep"
    /\ DOMAIN passPre = {"T1", "T2"}
    /\ tokenList = <<"T1">>
    /\ DOMAIN srvs = {"T1"}
    /\ inst[passPre["T2"]].state = "stopped"
    /\ inst[srvs["T1"]].state = "running"

(***************************************************************************)
(* Claims about setMerkleRoot and the services sharing the connection.     *)
(***************************************************************************)
\* the transactions i < j of one service for one proposal
SameProposalTxs == { p \in (1..Len(txs)) \X (1..Len(txs)) :
                       /\ p[1] < p[2]
                       /\ txs[p[1]].svc = txs[p[2]].svc
                       /\ txs[p[1]].prop = txs[p[2]].prop }

\* C1 as stated: two calls of setMerkleRoot of a service that derive the same
\* (targetEpoch, root, cid) submit at most one SetMerkleRoot transaction in all.
C1_AtMostOneTxPerProposal == SameProposalTxs = {}

\* C1 as amended: a service sends a second transaction for a (targetEpoch, root, cid)
\* only when its earlier one was not confirmed with status 1; once a transaction of
\* the service for the proposal is confirmed, later calls deriving the same proposal
\* return at the HasVoted check (or the not-yet-time check) without sending.
C1_AtMostOneConfirmedTxPerProposal ==
    \A p \in SameProposalTxs : txs[p[1]].outcome \in {"failed", "limit"}

\* a call returned at the HasVoted check for the proposal of the service's confirmed transaction
C1_Witness ==
    \E s \in Services :
        /\ inv[s].exit = "voted"
        /\ \E i \in 1..Len(txs) : txs[i].svc = s /\ txs[i].prop = inv[s].prop /\ txs[i].outcome = "ok"

\* the positions of sendSetMerkleRootTx between LockAndUpdateTxOpts and UnlockTxOpts
Held == {"send", "wait", "fire", "unlock"}

\* the transactions whose waitTxOk has not ended
Outstanding == { i \in 1..Len(txs) : txs[i].outcome = "pending" }

\* C4 as stated, the part about the number of transactions: a service that is about to
\* release the lock has submitted exactly one transaction while holding it.
C4_ExactlyOneTxUnderLock == \A s \in Services : spc[s] = "unlock" => lockTx = 1

\* C4 as amended: at most one service at a time is between LockAndUpdateTxOpts and
\* UnlockTxOpts, the holder submits at most one transaction while it holds the lock
\* (none when SetMerkleRoot returns an error), and two services never have a
\* transaction outstanding at the same time.
C4_LockMutualExclusion ==
    /\ \A s, t \in Services : (spc[s] \in Held /\ spc[t] \in Held) => s = t
    /\ \A s \in Services : spc[s] \in Held => txLock = s
    /\ lockTx <= 1
    /\ Cardinality(Outstanding) <= 1
    /\ \A i \in Outstanding : spc[txs[i].svc] = "wait"

\* one service waits for its transaction under the lock while the other is at LockAndUpdateTxOpts
C4_Witness ==
    \E s, t \in Services : s # t /\ spc[s] = "wait" /\ spc[t] = "lock" /\ lockTx = 1

\* C6: the shutdown bus never blocks a sender: no service is left in the send on
\* ShutdownRequestChannel with the channel full and nobody receiving any more.
C6_ShutdownSendNeverBlocks ==
    \A s \in Services : spc[s] = "fire" => (CanSendShutdown \/ ~shutdownTaken)

\* the list holds an address twice
HasDuplicateAddress(list) ==
    \E i, j \in 1..Len(list) : i # j /\ HexToAddress(list[i].Address) = HexToAddress(list[j].Address)

\* the calls C8 is about: dealedEpochOnchain > 0 and no event, or a duplicate in the file
ProtocolViolationSeen(s) ==
    /\ inv[s].dealedRead > 0
    /\ \/ inv[s].eventSeen = "no"
       \/ inv[s].eventSeen = "yes" /\ HasDuplicateAddress(inv[s].preSeen)

\* C8: when dealedEpochOnchain > 0 and either no SetMerkleRoot event exists for that
\* epoch or the prior rewards file holds an address twice, setMerkleRoot returns an
\* error and makes no upload, no HasVoted query and no transaction.
C8_ViolationReturnsErrorBeforeUpload ==
    \A s \in Services :
        ProtocolViolationSeen(s) =>
            /\ inv[s].result = "err"
            /\ inv[s].uploads = 0
            /\ inv[s].queries = 0
            /\ inv[s].sends = 0
            /\ spc[s] = "idle"

\* one service returned for the missing event, the other for a duplicate address
C8_Witness ==
    \E s, t \in Services :
        /\ inv[s].exit = "noevent" /\ ProtocolViolationSeen(s)
        /\ inv[t].exit = "dup" /\ ProtocolViolationSeen(t)

\* C9: when GetProof returns an empty proof for a leaf of the built tree,
\* setMerkleRoot returns a non-nil error, not success.
C9_EmptyProofReturnsError ==
    \A s \in Services : inv[s].exit = "emptyProof" => inv[s].result = "err"


\* the runs of setMerkleRoot that have derived their proposal
Derived == { s \in Services : inv[s].uploads > 0 }

\* C11: setMerkleRoot is deterministic in its chain inputs: two runs that read the same
\* prior file, the same new rewards and the same finalized epoch derive the same ordered
\* list, root, cid and proposal id, whatever the map iteration orders; and a run whose
\* HasVoted answer is true returns without submitting.
C11_SetMerkleRootDeterministic ==
    /\ \A s, t \in Derived :
         (/\ inv[s].preSeen = inv[t].preSeen
          /\ inv[s].newSeen = inv[t].newSeen
          /\ inv[s].prop[1] = inv[t].prop[1]) => inv[s].prop = inv[t].prop
    /\ \A s \in Services : inv[s].voted = "yes" => (inv[s].sends = 0 /\ inv[s].result = "nil")

\* two voters derived a proposal from the same two-node inputs, one of them returned at HasVoted
C11_Witness ==
    \E s, t \in Derived :
        /\ s # t
        /\ inv[s].preSeen = inv[t].preSeen
        /\ inv[s].newSeen = inv[t].newSeen
        /\ Cardinality(DOMAIN inv[s].newSeen) = 2
        /\ inv[s].prop = inv[t].prop
        /\ inv[s].voted = "yes"


\* the services that are started and not stopped
RunningInsts == { i \in 1..Len(inst) : inst[i].state = "running" }

\* C12: when ServiceManager.Stop runs, every running service is stopped before the
\* shared connection is stopped: once the connection is stopped no service is running,
\* under every interleaving of Stop with a reconcile pass.
C12_ServicesStoppedBeforeConnection == connStopped => RunningInsts = {}


\* the reconciler's retry.Do has returned an error (line 111)
GaveUp == mpc \in {"fire", "exited"}

\* after giving up the reconciler runs no reconcile pass and no service is created
NoPassAfterGivingUp == [][GaveUp => (GaveUp' /\ Len(inst') = Len(inst) /\ DOMAIN srvs' = DOMAIN srvs)]_vars

\* the reconciler that gave up can complete its send at line 113, or the receiver can
\* still take the signal that is in its way
FiresAndExits == mpc = "fire" => (CanSendShutdown \/ ~shutdownTaken)

\* C13: when a reconcile pass fails on every attempt of its retry budget, the reconciler
\* fires the shutdown signal and exits: it is not left at the send, it runs no further
\* reconcile pass, and no service is restarted.
C13_ReconcilerFiresAndExits == NoPassAfterGivingUp /\ []FiresAndExits


\* the arguments as the callers pass them: numbers that are not negative
NonNegativeArgs(kind, a) ==
    CASE kind = "SubmitBalancesProposalId" -> a.block >= 0 /\ a.totalEth >= 0 /\ a.rethSupply >= 0
      [] kind = "VoteMerkleRootProposalId" -> a.dealedEpoch >= 0
      [] OTHER -> TRUE

\* the merkle roots of two calls have one length (the callers pass 32 bytes)
SameRootLen(kind, a, b) ==
    kind = "VoteMerkleRootProposalId" => Len(a.merkleRoot) = Len(b.merkleRoot)

C15_EpochRoundTrip ==
    (fnName = "EpochOfStartSlot" /\ fnOut # << >>) => fnOut[1] = fnArgs.epoch

\* the round trip is the identity when the genesis epoch is 0
EpochRoundTripFromGenesisZero ==
    (fnName = "EpochOfStartSlot" /\ fnOut # << >> /\ fnArgs.config.GenesisEpoch = 0) => fnOut[1] = fnArgs.epoch

\* a call of GetUserNodePlatformReward has returned
RewardReturned == fnName = "GetUserNodePlatformReward" /\ fnOut # << >>

\* the sum of the three amounts returned
SumReturned == fnOut[1][1] + fnOut[1][2] + fnOut[1][3]

\* C16: for every reward r >= 0 and node deposit d in [0, 32e18] the amounts returned
\* are not negative and add up to at most r and to r within one unit of rounding; for
\* r <= 0 or d > 32e18 all three are zero.
C16_RewardSplitConserves ==
    RewardReturned =>
        /\ (fnArgs.rewardDeci >= 0 /\ fnArgs.nodeDepositAmount <= 32 * Pow10(AmountDecimals)) =>
              /\ SumReturned <= NewFromInt(fnArgs.rewardDeci)
              /\ NewFromInt(fnArgs.rewardDeci) - SumReturned <= 1
              /\ \A i \in 1..3 : fnOut[1][i] >= 0
        /\ (fnArgs.rewardDeci <= 0 \/ fnArgs.nodeDepositAmount > 32 * Pow10(AmountDecimals)) =>
              fnOut[1] = <<0, 0, 0>>

\* a split whose division was rounded and which leaves the user a share
C16_Witness ==
    /\ RewardReturned
    /\ fnArgs.rewardDeci > 0
    /\ fnArgs.nodeDepositAmount \in 1..(32 * Pow10(AmountDecimals) - 1)
    /\ (fnArgs.rewardDeci * Percent90Deci * fnArgs.nodeDepositAmount) % (32 * Pow10(AmountDecimals)) # 0
    /\ fnOut[1][1] > 0

\* C17 as stated: for node deposit 0 and reward r > 0 the user reward is 85% of r, the
\* node reward 5% of r and the platform fee 5% of r.
C17_ZeroDepositSplit85 ==
    (RewardReturned /\ fnArgs.nodeDepositAmount = 0 /\ fnArgs.rewardDeci > 0) =>
        /\ 100 * fnOut[1][1] = 85 * NewFromInt(fnArgs.rewardDeci)
        /\ 100 * fnOut[1][2] = 5 * NewFromInt(fnArgs.rewardDeci)
        /\ 100 * fnOut[1][3] = 5 * NewFromInt(fnArgs.rewardDeci)

\* C17 as amended: for node deposit 0 and reward r > 0 the user reward is 90% of r, the
\* node reward 5% of r and the platform fee 5% of r.
C17_ZeroDepositSplit90 ==
    (RewardReturned /\ fnArgs.nodeDepositAmount = 0 /\ fnArgs.rewardDeci > 0) =>
        /\ 100 * fnOut[1][1] = 90 * NewFromInt(fnArgs.rewardDeci)
        /\ 100 * fnOut[1][2] = 5 * NewFromInt(fnArgs.rewardDeci)
        /\ 100 * fnOut[1][3] = 5 * NewFromInt(fnArgs.rewardDeci)

\* a reward that is no multiple of 20 has been split for node deposit 0
C17_Witness ==
    /\ RewardReturned
    /\ fnArgs.nodeDepositAmount = 0
    /\ fnArgs.rewardDeci = 3

\* the positions of the newlines of a file
Newlines(file) == { i \in 1..Len(file) : file[i] = 10 }

\* the text of a file after its last newline
AfterLastNewline(file) ==
    IF Newlines(file) = {} THEN file
    ELSE LET last == CHOOSE i \in Newlines(file) : \A j \in Newlines(file) : j <= i
         IN SubSeq(file, last + 1, Len(file))

\* C18: ReadLastLine returns the last textual line without any line terminator: the
\* result holds no '\n' and no '\r', "a\nb\n" yields "b", an empty file yields "", and a
\* file without a trailing newline yields the text after its last newline.
C18_LastLineWithoutTerminator ==
    (fnName = "ReadLastLine" /\ fnOut # << >> /\ ~fnOut[1].err) =>
        /\ \A i \in 1..Len(fnOut[1].line) : fnOut[1].line[i] \notin {10, 13}
        /\ fnArgs = <<97, 10, 98, 10>> => fnOut[1].line = <<98>>
        /\ fnArgs = << >> => fnOut[1].line = << >>
        /\ (fnArgs # << >> /\ fnArgs[Len(fnArgs)] \notin {10, 13}) => fnOut[1].line = AfterLastNewline(fnArgs)

\* for a file that ends in no terminator the result is the text after the last terminator
LastLineOfUnterminatedFile ==
    (fnName = "ReadLastLine" /\ fnOut # << >> /\ ~fnOut[1].err /\ fnArgs # << >>
        /\ \A i \in 1..Len(fnArgs) : fnArgs[i] # 13) =>
            (fnArgs[Len(fnArgs)] # 10 => fnOut[1].line = AfterLastNewline(fnArgs))

\* C19 as stated: the lock is released before WaitTxOk: it is not held by the service
\* while its waitTxOk polls for the transaction.
C19_LockReleasedBeforeWait == \A s \in Services : spc[s] = "wait" => txLock # s

\* the service holds the lock from the return of LockAndUpdateTxOpts to the end of waitTxOk
LockHeldThroughWait == \A s \in Services : spc[s] \in {"send", "wait", "fire", "unlock"} => txLock = s

\* the lock is released by the deferred UnlockTxOpts only, when sendSetMerkleRootTx returns
ReleasedAtReturnOnly ==
    [][\A s \in Services : (txLock = s /\ txLock' # s) => (spc[s] = "unlock" /\ spc'[s] = "idle")]_vars

\* C19 as amended: in sendSetMerkleRootTx the steps occur in the order: acquire the
\* tx-opts lock, send SetMerkleRoot, WaitTxOk, release the lock (deferred, at the
\* return); the lock is held while WaitTxOk polls for the transaction.
C19_LockReleasedAfterWait == []LockHeldThroughWait /\ ReleasedAtReturnOnly

\* a service whose waitTxOk has returned successfully is about to release the lock it still holds
C19_Witness ==
    \E s \in Services : spc[s] = "unlock" /\ inv[s].exit = "sent" /\ txLock = s /\ lockTx = 1

\* C20 as stated: the TransactionByHash loop and the TransactionReceipt loop each make
\* at most 600 attempts (retry and subRetry count the attempts that did not succeed).
C20_AtMost600Attempts == retry <= RetryLimit /\ subRetry <= RetryLimit

\* the call gave up with a retry-limit error
ReachedRetryLimit == wpc \in {"defer", "returned"} /\ wErr /\ receipt = NoReceipt

\* C20 as amended: each polling loop makes at most RetryLimit + 1 = 601 attempts (the
\* first one and 600 retries) before giving up with the retry-limit error.
C20_AtMost601Attempts ==
    /\ retry <= RetryLimit + 1
    /\ subRetry <= RetryLimit + 1
    /\ ReachedRetryLimit => (retry = RetryLimit + 1 \/ subRetry = RetryLimit + 1)

\* the call has given up after 601 attempts of TransactionByHash
C20_Witness == wpc = "returned" /\ wErr /\ retry = RetryLimit + 1 /\ subRetry = 0

\* a call of setMerkleRoot by service s begins in this step
CallBegins(s) == inv'[s].n = inv[s].n + 1

\* the chain and sync state read by service s says it is not yet time for a new root
NothingToDo(s) ==
    \/ (finalizedEpoch \div merkleRootDuEpochs) * merkleRootDuEpochs <= dealed[s]
    \/ StartBlock((finalizedEpoch \div merkleRootDuEpochs) * merkleRootDuEpochs) > synced[s]

\* C21: when the aligned target epoch is at most the dealed epoch on chain, or its start
\* block is past the last synced block, a call of setMerkleRoot whose queries succeed
\* returns nil having downloaded, uploaded, asked HasVoted and sent nothing, and leaves
\* every service and chain variable as it was.
C21_NotYetTimeNoSideEffect ==
    [][\A s \in Services :
          (CallBegins(s) /\ NothingToDo(s) /\ inv'[s].exit # "check") =>
             /\ inv'[s].exit \in {"notyet", "sync"}
             /\ inv'[s].result = "nil"
             /\ inv'[s].downloads = 0 /\ inv'[s].uploads = 0
             /\ inv'[s].queries = 0 /\ inv'[s].sends = 0
             /\ inv'[s].voted = "unasked"
             /\ UNCHANGED <<spc, loc, txs, txLock, lockTx, dealed, hasVoted, synced, finalizedEpoch>>]_vars

\* one service returned because the target was dealed, the other because of the block sync
C21_Witness ==
    \E s, r \in Services : inv[s].exit = "notyet" /\ inv[r].exit = "sync"

\* a SetMerkleRoot transaction is sent in this step
TxSent == Len(txs') = Len(txs) + 1

\* C22: every SetMerkleRoot transaction carries a target epoch that is a multiple of
\* merkleRootDuEpochs, the largest such multiple not above the finalized epoch read in the
\* call that sends it, above the dealed epoch read in that call, and whose start block is
\* at most latestBlockOfSyncBlock.
C22_TxTargetEpochAligned ==
    [][TxSent =>
          LET tx == txs'[Len(txs')]
              s == tx.svc
              target == tx.prop[1]
          IN  /\ target % merkleRootDuEpochs = 0
              /\ target <= inv[s].finalizedRead
              /\ target + merkleRootDuEpochs > inv[s].finalizedRead
              /\ target > inv[s].dealedRead
              /\ StartBlock(target) <= synced[s]
              /\ tx.prop = inv'[s].prop]_vars

\* a transaction in flight for a target below an unaligned finalized epoch
C22_Witness ==
    \E s \in Services :
        /\ spc[s] = "wait"
        /\ \E i \in DOMAIN txs : txs[i].svc = s /\ txs[i].outcome = "pending" /\ txs[i].prop = inv[s].prop
        /\ inv[s].finalizedRead > inv[s].prop[1]
        /\ inv[s].prop[1] > inv[s].dealedRead

\* the addresses of the prior list
PreAddresses == { HexToAddress(preList[i].Address) : i \in DOMAIN preList }

\* the prior amounts of address a, zero when the prior list does not have it
PriorOf(a) ==
    IF a \in PreAddresses
    THEN LET i == CHOOSE i \in DOMAIN preList : HexToAddress(preList[i].Address) = a
         IN <<preList[i].TotalRewardAmount, preList[i].TotalExitDepositAmount>>
    ELSE <<0, 0>>

\* the new amounts of address a, zero when it has no new rewards
DeltaOf(a) ==
    IF a \in DOMAIN newRewards
    THEN <<newRewards[a].TotalRewardAmount, newRewards[a].TotalExitDepositAmount>>
    ELSE <<0, 0>>

\* C23: the merged list has exactly the addresses of the prior list and of the new
\* rewards, each with its prior amounts (zero when absent) plus its new amounts (zero
\* when absent): no prior node is dropped and no amount decreases.
C23_MergeCarriesPriorForward ==
    mergeState = "merged" =>
        /\ { HexToAddress(finalList[i].Address) : i \in DOMAIN finalList } = PreAddresses \cup DOMAIN newRewards
        /\ \A i \in DOMAIN finalList :
              LET a == HexToAddress(finalList[i].Address) IN
              /\ finalList[i].TotalRewardAmount = PriorOf(a)[1] + DeltaOf(a)[1]
              /\ finalList[i].TotalExitDepositAmount = PriorOf(a)[2] + DeltaOf(a)[2]
              /\ finalList[i].TotalRewardAmount >= PriorOf(a)[1]
              /\ finalList[i].TotalExitDepositAmount >= PriorOf(a)[2]

\* a merge of two prior nodes, one of which has new rewards
C23_Witness ==
    /\ mergeState = "merged" /\ Len(preList) = 2 /\ Len(finalList) = 2
    /\ \E a \in DOMAIN newRewards : a \in PreAddresses /\ DeltaOf(a)[1] > 0

\* a call of pruneBlocks returns in this step
PruneReturns == prunes' = prunes + 1

\* the least of the two recorded heights, the start block of latestMerkleRootEpoch
\* (0 for epoch 0) and the withdrawals height read at the cycle snapshot block
LeastHeight(snapshot) ==
    LET four == {latestDistributePriorityFeeHeight, latestDistributeWithdrawalsHeight,
                 IF latestMerkleRootEpoch = 0 THEN 0 ELSE StartBlock(latestMerkleRootEpoch), snapshot}
    IN  CHOOSE h \in four : \A g \in four : h <= g

\* C24: pruneBlocks sets minExecutionBlockHeight to the least of the four heights when
\* every query succeeds and that least height is not zero, leaves it as it was when the
\* least height is zero or a query fails, changes no other service variable, and never
\* replaces a non-zero watermark by 0.
C24_PruneBlocksWatermark ==
    [][PruneReturns =>
          LET out == pruneOut'[1] IN
          /\ minExecutionBlockHeight' =
                IF ~out.err /\ LeastHeight(out.snapshot) # 0
                THEN LeastHeight(out.snapshot) ELSE minExecutionBlockHeight
          /\ minExecutionBlockHeight # 0 => minExecutionBlockHeight' # 0
          /\ UNCHANGED <<latestMerkleRootEpoch, latestDistributeWithdrawalsHeight,
                         latestDistributePriorityFeeHeight, svcVars>>]_vars

\* pruneBlocks has set the watermark to the start block of latestMerkleRootEpoch, which is
\* below the two recorded heights and the snapshot height
C24_Witness ==
    /\ prunes > 0 /\ pruneOut # << >> /\ ~pruneOut[1].err
    /\ latestMerkleRootEpoch # 0
    /\ minExecutionBlockHeight = StartBlock(latestMerkleRootEpoch)
    /\ minExecutionBlockHeight < latestDistributePriorityFeeHeight
    /\ minExecutionBlockHeight < latestDistributeWithdrawalsHeight
    /\ minExecutionBlockHeight < pruneOut[1].snapshot

\* the running services of token t
RunningOf(t) == { i \in DOMAIN inst : inst[i].token = t /\ inst[i].state = "running" }

\* no pass of syncEntrustedLsdTokens is under way
BetweenPasses == mpc \notin {"add", "remove"}

\* the services map holds exactly the running services, each under its own token
MapHoldsRunning ==
    /\ { srvs[t] : t \in DOMAIN srvs } = { i \in DOMAIN inst : inst[i].state = "running" }
    /\ \A t \in DOMAIN srvs : inst[srvs[t]].token = t

\* newAndStartServiceFor fails in this step
CreateFails == mpc = "add" /\ attempt' = attempt + 1

\* C25: through startup and reconcile passes (Stop not called) each token has at most one
\* running service; between passes the services map holds exactly the services that were
\* started and not stopped since; a failed creation or start stores nothing in the map.
C25_AtMostOneRunningPerToken ==
    /\ [](stopPc = "no" =>
            /\ \A t \in Tokens : Cardinality(RunningOf(t)) <= 1
            /\ BetweenPasses => MapHoldsRunning)
    /\ [][CreateFails => UNCHANGED <<srvs, inst>>]_vars

\* between passes, a token that was removed and listed again: its first service stopped
\* by a pass and out of the map, its second service running and in the map
C25_Witness ==
    /\ stopPc = "no" /\ mpc = "sleep"
    /\ \E i, j \in DOMAIN inst :
          /\ inst[i].token = inst[j].token
          /\ inst[i].state = "stopped" /\ inst[i].by = "sync"
          /\ inst[j].state = "running" /\ srvs[inst[j].token] = j
    /\ fetchFailed

\* the send error and success paths: a holder that is not in waitTxOk's failure path is
\* at the send, in waitTxOk or at the deferred UnlockTxOpts, and the step that takes it
\* out of sendSetMerkleRootTx frees the lock
ReleasedOnReturn ==
    [][\A s \in Services : (spc[s] = "unlock" /\ spc'[s] # "unlock") => (txLock = s /\ txLock' = "free")]_vars

\* a call in which LockAndUpdateTxOpts fails sends no transaction
LockFailSendsNothing ==
    \A s \in Services : inv[s].exit = "lock" => (inv[s].sends = 0 /\ inv[s].result = "err")

\* C26: once sendSetMerkleRootTx holds the lock, every exit path releases it: a holder
\* whose waitTxOk ended in an error is at the deferred UnlockTxOpts, or can get there
\* (the send on ShutdownRequestChannel that precedes it can complete).
C26_LockReleasedOnEveryExit ==
    \A s \in Services :
        (txLock = s /\ inv[s].exit = "wait") =>
            \/ spc[s] = "unlock"
            \/ ~shutdownPending
            \/ ~shutdownTaken

\* the calls of setMerkleRoot whose merged list is empty
EmptyMerged == { s \in Services : inv[s].merged = "empty" }

\* the positions and exits of a call that has gone into sendSetMerkleRootTx
InSendTx(s) == spc[s] \in {"lock", "send", "wait", "fire", "unlock"} \/ inv[s].exit \in {"lock", "send", "wait", "sent"}

\* C27: when the merged list is empty, setMerkleRoot builds no Merkle tree, goes on to
\* the upload of the empty list, derives the proposal of the target epoch, the root of
\* 32 zero bytes and the cid of the empty list, and when HasVoted answers false goes on
\* to sendSetMerkleRootTx, whose transaction carries that proposal.
C27_EmptyListVotesZeroRoot ==
    \A s \in EmptyMerged :
        /\ inv[s].trees = 0
        /\ inv[s].preSeen = << >> /\ inv[s].newSeen = EmptyMap
        /\ spc[s] = "upload" \/ inv[s].exit = "upload" \/ inv[s].uploads = 1
        /\ spc[s] = "upload" => (loc[s].list = << >> /\ loc[s].root = ZeroRoot)
        /\ inv[s].uploads = 1 =>
              /\ Len(inv[s].prop[2]) = 32
              /\ \A i \in 1..32 : inv[s].prop[2][i] = 0
              /\ inv[s].prop[3] = Cid(<< >>)
              /\ inv[s].prop[1] = (inv[s].finalizedRead \div merkleRootDuEpochs) * merkleRootDuEpochs
        /\ inv[s].voted = "no" => InSendTx(s)
        /\ inv[s].sends = 1 => \E i \in DOMAIN txs : txs[i].svc = s /\ txs[i].prop = inv[s].prop

\* a confirmed vote for the zero root of an empty list
C27_Witness ==
    \E s \in EmptyMerged : \E i \in DOMAIN txs :
        /\ txs[i].svc = s /\ txs[i].outcome = "ok" /\ txs[i].prop = inv[s].prop
        /\ inv[s].voted = "no" /\ inv[s].exit = "sent"
        /\ txs[i].prop[2] = [k \in 1..32 |-> 0]


====
